---- MODULE Spec2Model ----
(***************************************************************************)
(* A model of the flux refinement checker's control-flow driver            *)
(* (crates/flux-refineck/src/checker.rs): Checker::run with its work       *)
(* queue, the shape and refine modes, the successor guards computed by     *)
(* check_terminator, and the fail-fast propagation of errors.              *)
(***************************************************************************)
EXTENDS Integers, Sequences, FiniteSets, TLC

VARIABLES
    body,       \* the MIR body being checked (genv.mir(def_id))
    doms,       \* body.dominators(): immediate dominators, dominance, ranks
    fault,      \* the sub-check of this body that returns Err (or NoFault)
    mode,       \* "shape" | "refine": the Mode the checker runs with
    status,     \* "init" | "running" | "ok" | "err" | "panic"
    panic,      \* why the run aborted ("" while it has not)
    visited,    \* ck.visited
    snapshots,  \* ck.snapshots: block -> node of the refinement tree, or NoNode
    bb_envs,    \* mode.bb_envs[def_id]: block -> stored env
    queue,      \* ck.queue: the set of pending blocks
    tree,       \* the refinement tree: live node -> [parent, bb]
    nextNode,   \* the next node to allocate
    stack,      \* the active check_basic_block / check_successors frames
    cur,        \* the block popped by the run loop and not yet entered
    checks,     \* block -> how often check_basic_block ran on it in this run
    rets,       \* block -> how often check_goto ran the return check of it
    hist,       \* what the last step did (read by the properties only)
    tin,        \* terminator given to check_terminator's guard functions
    tout        \* the successors they returned

ckvars == <<body, doms, fault, mode, status, panic, visited, snapshots,
            bb_envs, queue, tree, nextNode, stack, cur, checks, rets, hist>>
tvars == <<tin, tout>>
vars == <<body, doms, fault, mode, status, panic, visited, snapshots,
          bb_envs, queue, tree, nextNode, stack, cur, checks, rets, hist, tin, tout>>

----------------------------------------------------------------------------
(* Bounds of the model *)

MaxNodes == 60
MaxBits == 2
MaxVariants == 3
MaxTargets == 2
MaxObligs == 3

----------------------------------------------------------------------------
(* MIR bodies *)

START_BLOCK == 0
NoBlock == 0 - 1
NoNode == 0 - 1
RootNode == 0

Term(k) ==
    [kind |-> k, target |-> NoBlock, discr |-> "none", nvariants |-> 0,
     targets |-> <<>>, otherwise |-> NoBlock, expected |-> TRUE, msg |-> "none"]

Goto(t) == [Term("Goto") EXCEPT !.target = t]
Return == Term("Return")
Unreachable == Term("Unreachable")
Drop(t) == [Term("Drop") EXCEPT !.target = t]
Call(t) == [Term("Call") EXCEPT !.target = t]
AssertTerm(e, m, t) ==
    [Term("Assert") EXCEPT !.expected = e, !.msg = m, !.target = t]
SwitchInt(d, n, ts, o) ==
    [Term("SwitchInt") EXCEPT !.discr = d, !.nvariants = n, !.targets = ts,
                              !.otherwise = o]

\* Terminator::successors: the targets in MIR order (SwitchInt: the listed
\* targets, then otherwise)
successors(t) ==
    CASE t.kind \in {"Goto", "Drop", "Assert", "FalseEdge", "FalseUnwind", "Yield"}
            -> <<t.target>>
      [] t.kind = "Call" -> IF t.target = NoBlock THEN <<>> ELSE <<t.target>>
      [] t.kind = "SwitchInt"
            -> [i \in 1 .. Len(t.targets) |-> t.targets[i][2]] \o <<t.otherwise>>
      [] OTHER -> <<>>

Range(s) == {s[i] : i \in 1 .. Len(s)}

Blocks(b) == 0 .. (b.n - 1)

MkBody(terms, stmts, gens) ==
    [n |-> Len(terms),
     term |-> [bb \in 0 .. (Len(terms) - 1) |-> terms[bb + 1]],
     stmts |-> [bb \in 0 .. (Len(terms) - 1) |-> stmts[bb + 1]],
     gen |-> [bb \in 0 .. (Len(terms) - 1) |-> gens[bb + 1]]]

\* if c { x = 1 } else { }; y = x; return
BodyDiamond ==
    MkBody(<<SwitchInt("bool", 0, <<<<0, 2>>>>, 1), Goto(3), Goto(3), Goto(4), Return>>,
           <<"real", "real", "nop", "real", "nop">>,
           <<{}, {1}, {}, {}, {}>>)

\* while i != 0 { assert!(no overflow); drop(v); }
BodyLoop ==
    MkBody(<<Goto(1), SwitchInt("int", 0, <<<<0, 3>>>>, 2),
             AssertTerm(FALSE, "Overflow(Add)", 4), Drop(1), Return>>,
           <<"real", "nop", "real", "real", "nop">>,
           <<{}, {}, {1}, {}, {}>>)

\* loop { match e { A => x, _ => if c { continue } }; join }
BodyNested ==
    MkBody(<<Goto(1), SwitchInt("uint", 0, <<<<0, 6>>>>, 2),
             SwitchInt("adt", 2, <<<<0, 3>>>>, 4), Goto(5),
             SwitchInt("bool", 0, <<<<0, 5>>>>, 1), Call(1), Return>>,
           <<"real", "nop", "real", "real", "real", "real", "nop">>,
           <<{}, {}, {}, {1}, {}, {2}, {}>>)

\* if c { while n != 0 { n -= 1 } } else { if e { x = 1 }; k }; r
BodySibling ==
    MkBody(<<SwitchInt("bool", 0, <<<<0, 1>>>>, 4),
             SwitchInt("bool", 0, <<<<0, 3>>>>, 2), Goto(3), Goto(6),
             SwitchInt("int", 0, <<<<0, 6>>>>, 5), Goto(4), Return>>,
           <<"real", "real", "real", "real", "nop", "real", "real">>,
           <<{}, {}, {2}, {}, {}, {1}, {}>>)

\* match on a three-variant enum, a diverging call and a division check
BodyMatch ==
    MkBody(<<SwitchInt("adt", 3, <<<<0, 1>>, <<1, 2>>>>, 3),
             AssertTerm(TRUE, "DivisionByZero", 4), Call(4), Call(NoBlock),
             Return>>,
           <<"real", "real", "real", "real", "real">>,
           <<{}, {1}, {}, {}, {}>>)

\* if c { x = 1 }; while n != 0 { if a { y = 1; if b { continue } }; z = 1 }
BodySeq ==
    MkBody(<<SwitchInt("bool", 0, <<<<0, 1>>>>, 2), Goto(3), Goto(3), Goto(4),
             SwitchInt("int", 0, <<<<0, 8>>>>, 5),
             SwitchInt("bool", 0, <<<<0, 7>>>>, 6),
             SwitchInt("bool", 0, <<<<0, 7>>>>, 4), Goto(4), Return>>,
           <<"real", "real", "nop", "nop", "nop", "real", "real", "real", "real">>,
           <<{}, {1}, {}, {}, {}, {2}, {3}, {}, {}>>)

\* if c { x = 1 }; return
BodyExit ==
    MkBody(<<SwitchInt("bool", 0, <<<<0, 1>>>>, 2), Goto(2), Return>>,
           <<"real", "real", "nop">>,
           <<{}, {1}, {}>>)

Bodies == {BodyDiamond, BodyLoop, BodyNested, BodySibling, BodyMatch, BodySeq, BodyExit}

----------------------------------------------------------------------------
(* Dominators of a body *)

SuccSet(b, bb) == Range(successors(b.term[bb]))

RECURSIVE ReachFrom(_, _, _)
ReachFrom(b, avoid, S) ==
    LET N == S \cup {t \in Blocks(b) \ {avoid} : \E p \in S : t \in SuccSet(b, p)}
    IN IF N = S THEN S ELSE ReachFrom(b, avoid, N)

\* Dominators::dominates(a, x): every path from START_BLOCK to x passes a
dominates(b, a, x) ==
    \/ a = x
    \/ x \notin ReachFrom(b, a, IF a = START_BLOCK THEN {} ELSE {START_BLOCK})

StrictDoms(b, x) == {a \in Blocks(b) \ {x} : dominates(b, a, x)}

\* Dominators::immediate_dominator(x): None for the start block
immediate_dominator(b, x) ==
    IF StrictDoms(b, x) = {} THEN NoBlock
    ELSE CHOOSE d \in StrictDoms(b, x) : \A e \in StrictDoms(b, x) : dominates(b, e, d)

RECURSIVE PostOrderVisit(_, _, _), PostOrderSuccs(_, _, _, _)
PostOrderVisit(b, node, acc) ==
    IF node \in acc.seen THEN acc
    ELSE LET after == PostOrderSuccs(b, successors(b.term[node]), 1,
                                     [seen |-> acc.seen \cup {node}, post |-> acc.post])
         IN [seen |-> after.seen, post |-> Append(after.post, node)]
PostOrderSuccs(b, ss, i, acc) ==
    IF i > Len(ss) THEN acc
    ELSE PostOrderSuccs(b, ss, i + 1, PostOrderVisit(b, ss[i], acc))

PostOrder(b) == PostOrderVisit(b, START_BLOCK, [seen |-> {}, post |-> <<>>]).post

\* the reverse-post-order index of x: what Dominators::rank_partial_cmp orders by
rank(b, x) ==
    LET po == PostOrder(b)
    IN Len(po) - (CHOOSE i \in 1 .. Len(po) : po[i] = x)

Dominators(b) ==
    [idom |-> [x \in Blocks(b) |-> immediate_dominator(b, x)],
     rank |-> [x \in Blocks(b) |-> rank(b, x)],
     dom |-> {p \in Blocks(b) \X Blocks(b) : dominates(b, p[1], p[2])}]

\* Body::is_join_point: more than one incoming edge
is_join_point(b, bb) ==
    Cardinality({e \in Blocks(b) \X (1 .. (MaxTargets + 1)) :
                    /\ e[2] <= Len(successors(b.term[e[1]]))
                    /\ successors(b.term[e[1]])[e[2]] = bb}) > 1

is_exit_block(b, bb) ==
    LET is_no_op == b.stmts[bb] = "nop"
        is_ret == b.term[bb].kind = "Return"
    IN is_no_op /\ is_ret

----------------------------------------------------------------------------
(* Refinement expressions and successor guards *)

Var == [op |-> "var", args |-> <<>>, val |-> 0]
Const(n) == [op |-> "const", args |-> <<>>, val |-> n]
Not(e) == [op |-> "not", args |-> <<e>>, val |-> 0]
Eq(e1, e2) == [op |-> "eq", args |-> <<e1, e2>>, val |-> 0]
And(es) == [op |-> "and", args |-> es, val |-> 0]

\* Expr::from_bits for Int and Uint base types
from_bits(bits) == Const(bits)

GuardNone == [kind |-> "None", expr |-> And(<<>>), variant |-> 0 - 1]
GuardPred(e) == [kind |-> "Pred", expr |-> e, variant |-> 0 - 1]
GuardMatch(i) == [kind |-> "Match", expr |-> And(<<>>), variant |-> i]

Succ(t, g) == [target |-> t, guard |-> g]

\* the closure mk of check_if: the guard expression of one switch value
mk_wrong_bool(discr, bits) ==
    IF discr = "bool" THEN (IF bits = 0 THEN Var ELSE Not(Var))
    ELSE Eq(Var, from_bits(bits))
mk(discr, bits) ==
    IF discr = "bool" THEN (IF bits = 0 THEN Not(Var) ELSE Var)
    ELSE Eq(Var, from_bits(bits))

check_if(discr, targets, otherwise) ==
    LET listed == [i \in 1 .. Len(targets) |->
                      Succ(targets[i][2], GuardPred(mk(discr, targets[i][1])))]
        other == And([i \in 1 .. Len(targets) |-> Not(mk(discr, targets[i][1]))])
    IN listed \o <<Succ(otherwise, GuardPred(other))>>

\* check_match: remaining is the set of variants no listed target names
check_match_two_left(nvariants, targets, otherwise) ==
    LET remaining == (0 .. (nvariants - 1)) \ {targets[i][1] : i \in 1 .. Len(targets)}
        listed == [i \in 1 .. Len(targets) |->
                      Succ(targets[i][2], GuardMatch(targets[i][1]))]
    IN IF Cardinality(remaining) >= 1
       THEN listed \o <<Succ(otherwise, GuardMatch(CHOOSE i \in remaining :
                                                   \A j \in remaining : i <= j))>>
       ELSE listed \o <<Succ(otherwise, GuardNone)>>
check_match(nvariants, targets, otherwise) ==
    LET remaining == (0 .. (nvariants - 1)) \ {targets[i][1] : i \in 1 .. Len(targets)}
        listed == [i \in 1 .. Len(targets) |->
                      Succ(targets[i][2], GuardMatch(targets[i][1]))]
    IN IF Cardinality(remaining) = 1
       THEN listed \o <<Succ(otherwise, GuardMatch(CHOOSE i \in remaining : TRUE))>>
       ELSE listed \o <<Succ(otherwise, GuardNone)>>

AssertKinds ==
    {"DivisionByZero", "BoundsCheck", "RemainderByZero", "Overflow(Add)",
     "Overflow(Sub)", "Overflow(Mul)", "Overflow(Div)", "Overflow(Rem)",
     "Overflow(Shl)", "Overflow(Shr)"}

\* check_assert: the guard of the target and the obligations handed to check_pred
check_assert_all_overflow(expected, msg) ==
    LET pred == IF expected THEN Var ELSE Not(Var)
    IN IF msg \in {"DivisionByZero", "BoundsCheck", "RemainderByZero"}
       THEN [guard |-> GuardPred(pred), heads |-> <<[pred |-> pred, reason |-> msg]>>]
       ELSE [guard |-> GuardPred(pred), heads |-> <<>>]
check_assert(expected, msg) ==
    LET pred == IF expected THEN Var ELSE Not(Var)
    IN IF msg \in {"DivisionByZero", "BoundsCheck", "RemainderByZero",
                   "Overflow(Div)", "Overflow(Rem)"}
       THEN [guard |-> GuardPred(pred), heads |-> <<[pred |-> pred, reason |-> msg]>>]
       ELSE [guard |-> GuardPred(pred), heads |-> <<>>]

TermOk(succs, heads, raised) ==
    [result |-> "ok", succs |-> succs, heads |-> heads, raised |-> raised]
TermErr(kind) == [result |-> "err", succs |-> <<>>, heads |-> <<>>, raised |-> kind]
TermPanic(why) == [result |-> "panic", succs |-> <<>>, heads |-> <<>>, raised |-> why]

\* check_terminator: fails is the set of the terminator's sub-checks that return Err
check_terminator(t, fails) ==
    CASE t.kind = "Return" ->
            IF "term" \in fails THEN TermErr("term")
            ELSE IF "closure" \in fails THEN TermErr("closure")
            ELSE TermOk(<<>>, <<>>, "")
      [] t.kind \in {"Unreachable", "CoroutineDrop"} -> TermOk(<<>>, <<>>, "")
      [] t.kind \in {"Goto", "FalseEdge", "FalseUnwind"} ->
            TermOk(<<Succ(t.target, GuardNone)>>, <<>>, "")
      [] t.kind = "Yield" ->
            IF "term" \in fails THEN TermErr("term")
            ELSE TermOk(<<Succ(t.target, GuardNone)>>, <<>>, "")
      [] t.kind = "SwitchInt" ->
            IF "term" \in fails THEN TermErr("term")
            ELSE IF t.discr \in {"int", "uint", "bool"}
                 THEN TermOk(check_if(t.discr, t.targets, t.otherwise), <<>>, "")
                 ELSE TermOk(check_match(t.nvariants, t.targets, t.otherwise), <<>>, "")
      [] t.kind = "Call" ->
            IF "term" \in fails THEN TermErr("term")
            ELSE IF "closure" \in fails THEN TermErr("closure")
            ELSE IF t.target # NoBlock THEN TermOk(<<Succ(t.target, GuardNone)>>, <<>>, "")
            ELSE TermOk(<<>>, <<>>, "")
      [] t.kind = "Assert" ->
            IF "term" \in fails THEN TermErr("term")
            ELSE LET a == check_assert(t.expected, t.msg)
                 IN TermOk(<<Succ(t.target, a.guard)>>, a.heads, "")
      [] t.kind = "Drop" ->
            TermOk(<<Succ(t.target, GuardNone)>>, <<>>,
                   IF "drop" \in fails THEN "drop" ELSE "")
      [] t.kind = "UnwindResume" -> TermPanic("todo")

----------------------------------------------------------------------------
(* The refinement tree, snapshots and stored environments *)

RootTree == (RootNode :> [parent |-> NoNode, bb |-> NoBlock])

RECURSIVE StrictlyBelow(_, _, _)
StrictlyBelow(t, n, a) ==
    /\ n \in DOMAIN t
    /\ t[n].parent # NoNode
    /\ (t[n].parent = a \/ StrictlyBelow(t, t[n].parent, a))

\* RefineSubtree::clear_children: drops every node below the snapshot's node;
\* nothing happens when the snapshot's node is no longer in the tree
clear_children(t, snap) ==
    IF snap \notin DOMAIN t THEN t
    ELSE [n \in {m \in DOMAIN t : ~StrictlyBelow(t, m, snap)} |-> t[n]]

push_node(t, n, parent, bb) == t @@ (n :> [parent |-> parent, bb |-> bb])

\* Snapshot::scope: the blocks whose bindings are in scope at the node
RECURSIVE scope(_, _)
scope(t, n) ==
    IF n = NoNode \/ n \notin DOMAIN t THEN {}
    ELSE (IF t[n].bb = NoBlock THEN {} ELSE {t[n].bb}) \cup scope(t, t[n].parent)

\* the outcome of unwrapping the snapshot at the dominator of bb
deref_dominator(snaps, t, d, bb) ==
    IF d.idom[bb] = NoBlock THEN "unset"
    ELSE IF snaps[d.idom[bb]] = NoNode THEN "unset"
    ELSE IF snaps[d.idom[bb]] \notin DOMAIN t THEN "stale"
    ELSE "live"

NoEnv == [some |-> FALSE, scope |-> {}, shape |-> {}, kvars |-> FALSE]

\* TypeEnv::into_infer: the shape of env under the dominator's scope
into_infer(env, sc) == [some |-> TRUE, scope |-> sc, shape |-> env, kvars |-> FALSE]

\* BasicBlockEnvShape::join: the stored shape generalised to cover env
join(entry, env) ==
    [env |-> [entry EXCEPT !.shape = entry.shape \cup env],
     modified |-> ~(env \subseteq entry.shape)]

\* BasicBlockEnvShape::into_bb_env: holes replaced by fresh kvars
into_bb_env(shape) == [shape EXCEPT !.kvars = TRUE]

\* BasicBlockEnv(Shape)::enter
enter(bb_env) == bb_env.shape

----------------------------------------------------------------------------
(* The work queue *)

\* WorkQueue::pop: the pending block of the smallest rank
queue_pop(q, d) == CHOOSE bb \in q : \A o \in q : d.rank[bb] <= d.rank[o]

\* WorkQueue::insert
queue_insert(q, bb) == q \cup {bb}

----------------------------------------------------------------------------
(* Sub-checks that fail *)

NoFault == [mode |-> "none", kind |-> "none", bb |-> NoBlock]

FaultKinds(b, bb) ==
    {"ghost", "edge"}
    \cup (IF b.stmts[bb] = "real" THEN {"stmt"} ELSE {})
    \cup (IF b.term[bb].kind \in {"Return", "SwitchInt", "Call", "Assert", "Yield"}
          THEN {"term"} ELSE {})
    \cup (IF b.term[bb].kind \in {"Return", "Call"} THEN {"closure"} ELSE {})
    \cup (IF b.term[bb].kind = "Drop" THEN {"drop"} ELSE {})
    \cup (IF b.term[bb].kind = "SwitchInt" /\ b.term[bb].discr = "adt"
          THEN {"downcast"} ELSE {})
    \cup (IF is_join_point(b, bb) /\ ~is_exit_block(b, bb) THEN {"join"} ELSE {})

Faults(b) ==
    {NoFault} \cup
    UNION {{[mode |-> m, kind |-> k, bb |-> bb] :
               m \in {"shape", "refine"}, k \in FaultKinds(b, bb)} : bb \in Blocks(b)}

\* the sub-checks of block bb that return Err in the current mode
Fails(bb) ==
    IF fault.mode = mode /\ fault.bb = bb THEN {fault.kind} ELSE {}

----------------------------------------------------------------------------
(* The two modes *)

JoinOk(e, m, d) == [result |-> "ok", why |-> "", env |-> e, modified |-> m, deref |-> d]
JoinAbort(r, w, d) == [result |-> r, why |-> w, env |-> NoEnv, modified |-> FALSE, deref |-> d]

\* ShapeMode::check_goto_join_point: entry is the stored env of the target,
\* deref and sc the state and scope of the snapshot at the target's dominator
shape_join_always_modified(entry, env, deref, sc, fails) ==
    IF entry.some
    THEN IF "join" \in fails THEN JoinAbort("err", "join", "none")
         ELSE JoinOk(join(entry, env).env, TRUE, "none")
    ELSE IF deref # "live" THEN JoinAbort("panic", "snapshot", deref)
         ELSE IF "join" \in fails THEN JoinAbort("err", "join", deref)
         ELSE JoinOk(into_infer(env, sc), TRUE, deref)
shape_join_keeps_first(entry, env, deref, sc, fails) ==
    IF entry.some
    THEN IF "join" \in fails THEN JoinAbort("err", "join", "none")
         ELSE JoinOk(entry, FALSE, "none")
    ELSE IF deref # "live" THEN JoinAbort("panic", "snapshot", deref)
         ELSE IF "join" \in fails THEN JoinAbort("err", "join", deref)
         ELSE JoinOk(into_infer(env, sc), TRUE, deref)
shape_check_goto_join_point(entry, env, deref, sc, fails) ==
    IF entry.some
    THEN IF "join" \in fails THEN JoinAbort("err", "join", "none")
         ELSE LET j == join(entry, env) IN JoinOk(j.env, j.modified, "none")
    ELSE IF deref # "live" THEN JoinAbort("panic", "snapshot", deref)
         ELSE IF "join" \in fails THEN JoinAbort("err", "join", deref)
         ELSE JoinOk(into_infer(env, sc), TRUE, deref)

\* RefineMode::check_goto_join_point
refine_reschedules(entry, env, deref, sc, fails, seen) ==
    IF ~entry.some THEN JoinAbort("panic", "no bb_env", "none")
    ELSE IF deref # "live" THEN JoinAbort("panic", "snapshot", deref)
    ELSE IF sc # entry.scope THEN JoinAbort("panic", "debug_assert_eq", deref)
    ELSE IF "join" \in fails THEN JoinAbort("err", "join", deref)
    ELSE JoinOk(entry, TRUE, deref)
refine_check_goto_join_point(entry, env, deref, sc, fails, seen) ==
    IF ~entry.some THEN JoinAbort("panic", "no bb_env", "none")
    ELSE IF deref # "live" THEN JoinAbort("panic", "snapshot", deref)
    ELSE IF sc # entry.scope THEN JoinAbort("panic", "debug_assert_eq", deref)
    ELSE IF "join" \in fails THEN JoinAbort("err", "join", deref)
    ELSE JoinOk(entry, ~seen, deref)

\* ShapeMode::clear
shape_clear_keeps_envs(vis, envs, d, root) ==
    [visited |-> {bb \in vis : <<root, bb>> \notin d.dom}, bb_envs |-> envs]
shape_clear_all_flags(vis, envs, d, root) ==
    [visited |-> {},
     bb_envs |-> [bb \in DOMAIN envs |->
                    IF bb # root /\ <<root, bb>> \in d.dom THEN NoEnv ELSE envs[bb]]]
shape_clear(vis, envs, d, root) ==
    [visited |-> {bb \in vis : <<root, bb>> \notin d.dom},
     bb_envs |-> [bb \in DOMAIN envs |->
                    IF bb # root /\ <<root, bb>> \in d.dom THEN NoEnv ELSE envs[bb]]]

\* ShapeResult::into_bb_envs
into_bb_envs(envs) ==
    [bb \in DOMAIN envs |-> IF envs[bb].some THEN into_bb_env(envs[bb]) ELSE NoEnv]

----------------------------------------------------------------------------
(* Checker *)

H(op) ==
    [op |-> op, bb |-> NoBlock, from |-> NoBlock, kind |-> "none",
     was_visited |-> FALSE, had_env |-> FALSE, modified |-> FALSE,
     inserted |-> FALSE, deref |-> "none", raised |-> "", pending |-> {}]

\* check_basic_block up to the terminator: the ghost statements, the
\* statements, then check_terminator
check_basic_block_drops_stmt_err(b, bb, fails) ==
    IF "ghost" \in fails THEN TermErr("ghost")
    ELSE IF "stmt" \in fails
         THEN [check_terminator(b.term[bb], fails) EXCEPT !.raised = "stmt"]
    ELSE check_terminator(b.term[bb], fails)
check_basic_block(b, bb, fails) ==
    IF "ghost" \in fails THEN TermErr("ghost")
    ELSE IF "stmt" \in fails THEN TermErr("stmt")
    ELSE check_terminator(b.term[bb], fails)

\* which branch of check_goto an edge to target takes
check_goto_kind_join_first(b, target) ==
    IF is_join_point(b, target) THEN "join"
    ELSE IF is_exit_block(b, target) THEN "exit"
    ELSE "block"
check_goto_kind(b, target) ==
    IF is_exit_block(b, target) THEN "exit"
    ELSE IF is_join_point(b, target) THEN "join"
    ELSE "block"

\* the run ends with Err (res = "err") or aborts (res = "panic")
Abort(res, why, t1, nn, h) ==
    /\ status' = res
    /\ panic' = (IF res = "panic" THEN why ELSE "")
    /\ hist' = [h EXCEPT !.raised = IF res = "err" THEN why ELSE ""]
    /\ stack' = <<>>
    /\ tree' = t1
    /\ nextNode' = nn
    /\ UNCHANGED <<visited, snapshots, bb_envs, queue, checks, rets>>

\* the rest of check_basic_block: the block is marked visited; when its checks
\* pass, its facts are pushed below rcx, the snapshot is taken and
\* check_successors starts on the successors
ApplyBlock(r, rcx, env, bb, stk, t1, nn, h) ==
    /\ visited' = visited \cup {bb}
    /\ checks' = [checks EXCEPT ![bb] = @ + 1]
    /\ IF r.result = "ok"
       THEN /\ tree' = push_node(t1, nn, rcx, bb)
            /\ nextNode' = nn + 1
            /\ snapshots' = [snapshots EXCEPT ![bb] = nn]
            /\ stack' = <<[bb |-> bb, rcx |-> nn, env |-> env \cup body.gen[bb],
                           succs |-> r.succs]>> \o stk
            /\ status' = "running"
            /\ panic' = panic
            /\ hist' = [h EXCEPT !.raised = r.raised]
       ELSE /\ tree' = t1
            /\ nextNode' = nn
            /\ snapshots' = snapshots
            /\ stack' = <<>>
            /\ status' = r.result
            /\ panic' = (IF r.result = "panic" THEN r.raised ELSE "")
            /\ hist' = [h EXCEPT !.raised = IF r.result = "err" THEN r.raised ELSE ""]

\* check_goto(rcx, env, from, target)
GotoStep(rcx, env, from, target, stk, t1, nn, h0) ==
    LET fails == Fails(target)
        kind == check_goto_kind(body, target)
        h == [h0 EXCEPT !.bb = target, !.from = from, !.kind = kind]
        d == deref_dominator(snapshots, t1, doms, target)
        sc == IF d = "live" THEN scope(t1, snapshots[doms.idom[target]]) ELSE {}
    IN
    IF "edge" \in fails THEN Abort("err", "edge", t1, nn, h)
    ELSE IF kind = "exit"
    THEN LET r == IF "ghost" \in fails THEN TermErr("ghost")
                  ELSE check_terminator(body.term[target], fails)
         IN IF r.result = "ok"
            THEN /\ status' = "running"
                 /\ panic' = panic
                 /\ hist' = h
                 /\ stack' = stk
                 /\ tree' = t1
                 /\ nextNode' = nn
                 /\ rets' = [rets EXCEPT ![target] = @ + 1]
                 /\ UNCHANGED <<visited, snapshots, bb_envs, queue, checks>>
            ELSE Abort(r.result, r.raised, t1, nn, h)
    ELSE IF kind = "join"
    THEN LET j == IF mode = "shape"
                  THEN shape_check_goto_join_point(bb_envs[target], env, d, sc, fails)
                  ELSE refine_check_goto_join_point(bb_envs[target], env, d, sc, fails,
                                                    target \in visited)
             hj == [h EXCEPT !.had_env = bb_envs[target].some, !.deref = j.deref,
                             !.modified = j.modified, !.inserted = j.modified]
         IN IF j.result = "ok"
            THEN /\ bb_envs' = [bb_envs EXCEPT ![target] = j.env]
                 /\ queue' = (IF j.modified THEN queue_insert(queue, target) ELSE queue)
                 /\ status' = "running"
                 /\ panic' = panic
                 /\ hist' = hj
                 /\ stack' = stk
                 /\ tree' = t1
                 /\ nextNode' = nn
                 /\ UNCHANGED <<visited, snapshots, checks, rets>>
            ELSE Abort(j.result, j.why, t1, nn, hj)
    ELSE /\ ApplyBlock(check_basic_block(body, target, fails), rcx, env, target, stk,
                       t1, nn, h)
         /\ UNCHANGED <<bb_envs, queue, rets>>

\* Checker::run up to its loop: the checker is built and the start block entered
RunStart ==
    /\ status = "init"
    /\ nextNode + 2 <= MaxNodes
    /\ GotoStep(RootNode, {}, START_BLOCK, START_BLOCK, <<>>, tree, nextNode, H("start"))
    /\ UNCHANGED <<body, doms, fault, mode, cur, tin, tout>>

\* the head of the run loop: queue.pop(), and for a visited block
\* clear_children at its dominator's snapshot and M::clear
PopClear ==
    /\ status = "running"
    /\ stack = <<>>
    /\ cur = NoBlock
    /\ queue # {}
    /\ LET bb == queue_pop(queue, doms)
           d == deref_dominator(snapshots, tree, doms, bb)
           h == [H("pop") EXCEPT !.bb = bb, !.was_visited = bb \in visited,
                                 !.pending = queue,
                                 !.deref = IF bb \in visited THEN d ELSE "none"]
           c == shape_clear(visited, bb_envs, doms, bb)
       IN /\ queue' = queue \ {bb}
          /\ hist' = h
          /\ IF bb \notin visited
             THEN /\ cur' = bb
                  /\ UNCHANGED <<status, panic, visited, bb_envs, tree>>
             ELSE IF d = "unset"
             THEN /\ status' = "panic"
                  /\ panic' = "snapshot"
                  /\ UNCHANGED <<cur, visited, bb_envs, tree>>
             ELSE IF mode = "refine"
             THEN /\ status' = "panic"
                  /\ panic' = "bug"
                  /\ tree' = clear_children(tree, snapshots[doms.idom[bb]])
                  /\ UNCHANGED <<cur, visited, bb_envs>>
             ELSE /\ cur' = bb
                  /\ tree' = clear_children(tree, snapshots[doms.idom[bb]])
                  /\ visited' = c.visited
                  /\ bb_envs' = c.bb_envs
                  /\ UNCHANGED <<status, panic>>
    /\ UNCHANGED <<body, doms, fault, mode, snapshots, nextNode, stack, checks,
                   rets, tin, tout>>

\* the body of the run loop: the popped block is entered at the snapshot of its
\* dominator with its stored env, and checked
Enter ==
    /\ status = "running"
    /\ cur # NoBlock
    /\ nextNode + 2 <= MaxNodes
    /\ LET d == deref_dominator(snapshots, tree, doms, cur)
           h == [H("enter") EXCEPT !.bb = cur, !.deref = d]
       IN IF d # "live"
          THEN /\ Abort("panic", "snapshot", tree, nextNode, h)
               /\ cur' = cur
          ELSE IF ~bb_envs[cur].some
          THEN /\ Abort("panic", "no bb_env", tree, nextNode, h)
               /\ cur' = cur
          ELSE /\ ApplyBlock(check_basic_block(body, cur, Fails(cur)),
                             snapshots[doms.idom[cur]], enter(bb_envs[cur]), cur,
                             <<>>, tree, nextNode, h)
               /\ cur' = NoBlock
               /\ UNCHANGED <<bb_envs, queue, rets>>
    /\ UNCHANGED <<body, doms, fault, mode, tin, tout>>

\* one iteration of check_successors: a branch of rcx and a clone of env, the
\* guard applied, then check_goto
SuccStep ==
    /\ status = "running"
    /\ stack # <<>>
    /\ Head(stack).succs # <<>>
    /\ nextNode + 2 <= MaxNodes
    /\ LET f == Head(stack)
           s == Head(f.succs)
           stk == <<[f EXCEPT !.succs = Tail(f.succs)]>> \o Tail(stack)
           h == H("succ")
       IN CASE s.guard.kind = "None" ->
                  GotoStep(f.rcx, f.env, f.bb, s.target, stk, tree, nextNode, h)
            [] s.guard.kind = "Pred" ->
                  GotoStep(nextNode, f.env, f.bb, s.target, stk,
                           push_node(tree, nextNode, f.rcx, NoBlock), nextNode + 1, h)
            [] s.guard.kind = "Match" ->
                  IF "downcast" \in Fails(f.bb)
                  THEN Abort("err", "downcast", tree, nextNode,
                             [h EXCEPT !.bb = s.target, !.from = f.bb])
                  ELSE GotoStep(f.rcx, f.env, f.bb, s.target, stk, tree, nextNode, h)
    /\ UNCHANGED <<body, doms, fault, mode, cur, tin, tout>>

\* check_successors and check_basic_block return Ok
ReturnStep ==
    /\ status = "running"
    /\ stack # <<>>
    /\ Head(stack).succs = <<>>
    /\ stack' = Tail(stack)
    /\ hist' = [H("ret") EXCEPT !.bb = Head(stack).bb]
    /\ UNCHANGED <<body, doms, fault, mode, status, panic, visited, snapshots,
                   bb_envs, queue, tree, nextNode, cur, checks, rets, tin, tout>>

\* queue.pop() returns None: run returns Ok
FinishRun ==
    /\ status = "running"
    /\ stack = <<>>
    /\ cur = NoBlock
    /\ queue = {}
    /\ status' = "ok"
    /\ hist' = H("finish")
    /\ UNCHANGED <<body, doms, fault, mode, panic, visited, snapshots, bb_envs,
                   queue, tree, nextNode, stack, cur, checks, rets, tin, tout>>

\* run_in_refine_mode on the result of run_in_shape_mode: a new tree, the
\* shapes turned into envs, a new checker
run_in_refine_mode ==
    /\ mode = "shape"
    /\ status = "ok"
    /\ mode' = "refine"
    /\ status' = "init"
    /\ bb_envs' = into_bb_envs(bb_envs)
    /\ visited' = {}
    /\ snapshots' = [bb \in Blocks(body) |-> NoNode]
    /\ queue' = {}
    /\ tree' = RootTree
    /\ nextNode' = RootNode + 1
    /\ checks' = [bb \in Blocks(body) |-> 0]
    /\ rets' = [bb \in Blocks(body) |-> 0]
    /\ hist' = H("refine")
    /\ UNCHANGED <<body, doms, fault, panic, stack, cur, tin, tout>>

TIdle == [op |-> "none", term |-> Term("none"), fails |-> {}]

\* the state in which Checker::run builds the checker for body b
CkInit(b, f) ==
    /\ body = b
    /\ doms = Dominators(b)
    /\ fault = f
    /\ mode = "shape"
    /\ status = "init"
    /\ panic = ""
    /\ visited = {}
    /\ snapshots = [bb \in Blocks(b) |-> NoNode]
    /\ bb_envs = [bb \in Blocks(b) |-> NoEnv]
    /\ queue = {}
    /\ tree = RootTree
    /\ nextNode = RootNode + 1
    /\ stack = <<>>
    /\ cur = NoBlock
    /\ checks = [bb \in Blocks(b) |-> 0]
    /\ rets = [bb \in Blocks(b) |-> 0]
    /\ hist = H("init")

Init ==
    /\ \E b \in Bodies : \E f \in Faults(b) : CkInit(b, f)
    /\ tin = TIdle
    /\ tout = TermOk(<<>>, <<>>, "")

Next ==
    \/ RunStart
    \/ PopClear
    \/ Enter
    \/ SuccStep
    \/ ReturnStep
    \/ FinishRun
    \/ run_in_refine_mode

Spec == Init /\ [][Next]_vars

\* the checker is sequential code: a step that can be taken is taken
FairSpec == Spec /\ WF_vars(Next)

Terminated ==
    \/ status \in {"err", "panic"}
    \/ status = "ok" /\ mode = "refine"

----------------------------------------------------------------------------
(* check_terminator's guard functions on their own *)

TBlocks == 1 .. 2

\* the (value, target) lists of a SwitchInt: pairwise distinct values
TargetLists(values) ==
    UNION {{ts \in [1 .. n -> values \X TBlocks] :
               \A i, j \in 1 .. n : i # j => ts[i][1] # ts[j][1]} : n \in 0 .. MaxTargets}

DiscrValues(d) == IF d = "bool" THEN 0 .. 1 ELSE 0 .. MaxBits

\* the terminators handed to check_assert, check_if and check_match
TInputs ==
    {[op |-> "check_assert", term |-> AssertTerm(e, m, t), fails |-> fl] :
        e \in BOOLEAN, m \in AssertKinds, t \in TBlocks, fl \in {{}, {"term"}}}
    \cup UNION {{[op |-> "check_if", term |-> SwitchInt(d, 0, ts, o), fails |-> fl] :
                   ts \in TargetLists(DiscrValues(d)), o \in TBlocks,
                   fl \in {{}, {"term"}}} : d \in {"bool", "int", "uint"}}
    \cup UNION {{[op |-> "check_match", term |-> SwitchInt("adt", n, ts, o), fails |-> fl] :
                   ts \in TargetLists(0 .. (n - 1)), o \in TBlocks,
                   fl \in {{}, {"term"}}} : n \in 1 .. MaxVariants}
    \cup {[op |-> "no_successors", term |-> Term(k), fails |-> fl] :
              k \in {"Unreachable", "CoroutineDrop", "UnwindResume"},
              fl \in {{}, {"term"}}}

TPending == [result |-> "pending", succs |-> <<>>, heads |-> <<>>, raised |-> ""]

TCheckAssert ==
    /\ tin.op = "check_assert"
    /\ tout = TPending
    /\ tout' = check_terminator(tin.term, tin.fails)
    /\ UNCHANGED <<ckvars, tin>>

TCheckIf ==
    /\ tin.op = "check_if"
    /\ tout = TPending
    /\ tout' = check_terminator(tin.term, tin.fails)
    /\ UNCHANGED <<ckvars, tin>>

TCheckMatch ==
    /\ tin.op = "check_match"
    /\ tout = TPending
    /\ tout' = check_terminator(tin.term, tin.fails)
    /\ UNCHANGED <<ckvars, tin>>

\* check_terminator on a terminator that has no target
TCheckNoSuccessors ==
    /\ tin.op = "no_successors"
    /\ tout = TPending
    /\ tout' = check_terminator(tin.term, tin.fails)
    /\ UNCHANGED <<ckvars, tin>>

TermInit ==
    /\ CkInit(BodyDiamond, NoFault)
    /\ tin \in TInputs
    /\ tout = TPending

TermNext ==
    \/ TCheckAssert
    \/ TCheckIf
    \/ TCheckMatch
    \/ TCheckNoSuccessors

TermSpec == TermInit /\ [][TermNext]_vars

----------------------------------------------------------------------------
(* Properties of Checker::run *)

StrictlyDominated(root) == {x \in Blocks(body) : x # root /\ <<root, x>> \in doms.dom}

\* C1: every snapshot the checker dereferences is live: when a block is
\* popped and entered, and when a join target is first reached in shape mode,
\* the snapshot of its immediate dominator is set and was not invalidated by
\* an earlier clear_children, so no unwrap of it fails.
C1_SnapshotsLive == hist.deref \in {"none", "live"} /\ panic # "snapshot"

\* C2: the queue pops the pending block of the smallest rank, so no block is
\* popped while a block that strictly dominates it is pending, and every
\* strict dominator of the popped block has been checked before it.
C2_PopOrder ==
    hist.op = "pop" =>
        /\ \A o \in hist.pending : doms.rank[hist.bb] <= doms.rank[o]
        /\ \A o \in hist.pending : o # hist.bb => <<o, hist.bb>> \notin doms.dom
        /\ \A a \in Blocks(body) :
              (a # hist.bb /\ <<a, hist.bb>> \in doms.dom) => a \in visited

C2_Witness ==
    /\ hist.op = "pop"
    /\ hist.was_visited
    /\ \E o \in hist.pending : o # hist.bb /\ <<hist.bb, o>> \in doms.dom
    /\ \E a \in visited : a # hist.bb /\ <<a, hist.bb>> \in doms.dom

\* C3: Checker::run terminates in both modes: every run ends, and a run that
\* returns Ok has emptied the work queue.
C3_Terminates ==
    /\ <>Terminated
    /\ [](status = "ok" => (queue = {} /\ stack = <<>> /\ cur = NoBlock))

C3_Witness ==
    /\ status = "ok"
    /\ mode = "refine"
    /\ \E bb \in Blocks(body) : is_join_point(body, bb) /\ checks[bb] = 1

\* C4: in shape mode an edge to a join point that has no stored env stores
\* the incoming env widened under the dominator's scope and inserts the
\* target into the queue; otherwise the incoming env is joined into the
\* stored env and the target is inserted iff the stored env changed.
C4_ShapeJoin ==
    [][(hist'.op = "succ" /\ hist'.kind = "join" /\ mode = "shape" /\ status' # "err") =>
        LET t == hist'.bb
            env == Head(stack).env
        IN IF bb_envs[t].some
           THEN /\ bb_envs'[t] = join(bb_envs[t], env).env
                /\ hist'.inserted <=> (bb_envs'[t] # bb_envs[t])
                /\ queue' = (IF bb_envs'[t] # bb_envs[t] THEN queue \cup {t} ELSE queue)
           ELSE /\ bb_envs'[t] = into_infer(env, scope(tree, snapshots[doms.idom[t]]))
                /\ hist'.inserted
                /\ queue' = queue \cup {t}]_vars

C4_Witness ==
    /\ hist.op = "succ"
    /\ hist.kind = "join"
    /\ mode = "shape"
    /\ status = "running"
    /\ hist.had_env
    /\ ~hist.inserted
    /\ \E bb \in Blocks(body) : checks[bb] >= 2

\* C5: in refine mode the stored envs are fixed, a join target is scheduled
\* only while it has not been visited, every block is checked at most once
\* per run, and RefineMode::clear is never reached.
C5_RefineFixed ==
    /\ [][(mode = "refine" /\ mode' = "refine") => bb_envs' = bb_envs]_vars
    /\ [](mode = "refine" =>
            /\ \A bb \in Blocks(body) : checks[bb] <= 1
            /\ panic # "bug"
            /\ (hist.kind = "join" /\ hist.inserted) => hist.bb \notin visited)

C5_Witness ==
    /\ mode = "refine"
    /\ hist.op = "succ"
    /\ hist.kind = "join"
    /\ status = "running"
    /\ hist.bb \in visited
    /\ ~hist.inserted

\* C6: when a visited block bb is popped in shape mode, before it is
\* re-checked every node below the snapshot of its immediate dominator is
\* deleted, the stored env and visited flag of every block strictly dominated
\* by bb are removed, bb's own env is kept and the envs and flags of blocks
\* bb does not dominate are unchanged.
C6_ClearFrame ==
    [][(hist'.op = "pop" /\ hist'.was_visited /\ mode = "shape") =>
        LET bb == hist'.bb
            snap == snapshots[doms.idom[bb]]
        IN /\ status' = "running"
           /\ cur' = bb
           /\ \A n \in DOMAIN tree' : ~StrictlyBelow(tree, n, snap)
           /\ \A n \in DOMAIN tree : ~StrictlyBelow(tree, n, snap) => n \in DOMAIN tree'
           /\ \A x \in StrictlyDominated(bb) : ~bb_envs'[x].some /\ x \notin visited'
           /\ bb_envs'[bb] = bb_envs[bb]
           /\ \A x \in Blocks(body) :
                 <<bb, x>> \notin doms.dom =>
                     /\ bb_envs'[x] = bb_envs[x]
                     /\ (x \in visited') <=> (x \in visited)]_vars

C6_Witness ==
    /\ hist.op = "pop"
    /\ hist.was_visited
    /\ mode = "shape"
    /\ bb_envs[hist.bb].some
    /\ \E x \in StrictlyDominated(hist.bb) : checks[x] >= 1 /\ x \notin visited
    /\ \E x \in StrictlyDominated(hist.bb) : x \in queue /\ ~bb_envs[x].some
    /\ \E x \in Blocks(body) : <<hist.bb, x>> \notin doms.dom /\ bb_envs[x].some

\* C7 as stated: an error of any sub-check, the move of a Drop's place
\* included, is the result of Checker::run.
C7_EveryErrorPropagates == hist.raised # "" => status = "err"

\* C7: an error of any sub-check other than the move of a Drop's place is
\* the result of Checker::run, and after it no successor is checked and no
\* block is popped; the error of a Drop's move is discarded and the check
\* goes on to the Drop's target.
C7_FailFast ==
    /\ [](hist.raised \notin {"", "drop"} => (status = "err" /\ stack = <<>>))
    /\ [](hist.raised = "drop" => (status = "running" /\ stack # <<>>))
    /\ [][status = "err" =>
            UNCHANGED <<visited, queue, snapshots, bb_envs, tree, stack, cur, checks>>]_vars

C7_Witness ==
    /\ status = "err"
    /\ queue # {}
    /\ hist.raised = "stmt"

----------------------------------------------------------------------------
(* Properties of the successor guards *)

RECURSIVE EvalI(_, _), EvalB(_, _)
\* the value of an integer expression when the discriminant's index is v
EvalI(e, v) ==
    IF e.op = "const" THEN e.val ELSE v
\* the truth of a boolean expression when the discriminant's index is v
\* (a bool index is true iff v is not 0)
EvalB(e, v) ==
    CASE e.op = "var" -> v # 0
      [] e.op = "not" -> ~EvalB(e.args[1], v)
      [] e.op = "eq" -> EvalI(e.args[1], v) = EvalI(e.args[2], v)
      [] e.op = "and" -> \A i \in 1 .. Len(e.args) : EvalB(e.args[i], v)

Applied(op) == tin.op = op /\ tout.result = "ok"

\* C8: for an Assert the predicate p is cond's index when expected, else its
\* negation; check_pred(p, Assert(msg)) is emitted for DivisionByZero,
\* BoundsCheck, RemainderByZero, Overflow(Div) and Overflow(Rem) and for no
\* other Overflow(op); the only successor is the target guarded by p.
C8_AssertGuard ==
    Applied("check_assert") =>
        LET t == tin.term
            checked == t.msg \in {"DivisionByZero", "BoundsCheck", "RemainderByZero",
                                  "Overflow(Div)", "Overflow(Rem)"}
        IN /\ Len(tout.succs) = 1
           /\ tout.succs[1].target = t.target
           /\ tout.succs[1].guard.kind = "Pred"
           /\ \A v \in 0 .. 1 : EvalB(tout.succs[1].guard.expr, v) <=> ((v # 0) = t.expected)
           /\ checked => /\ Len(tout.heads) = 1
                         /\ tout.heads[1].reason = t.msg
                         /\ tout.heads[1].pred = tout.succs[1].guard.expr
           /\ ~checked => tout.heads = <<>>

C8_Witness ==
    /\ Applied("check_assert")
    /\ tin.term.msg = "Overflow(Rem)"
    /\ ~tin.term.expected
    /\ Len(tout.heads) = 1

\* C9: for a SwitchInt on an integer or bool each listed (bits, bb) is
\* guarded by discr = bits (bool: discr when bits is not 0, its negation when
\* bits is 0), otherwise by the conjunction of the negations; so for every
\* value of the discriminant exactly one successor guard is true.
C9_IfGuards ==
    Applied("check_if") =>
        LET t == tin.term
            n == Len(t.targets)
            vals == 0 .. (MaxBits + 1)
            holds(i, v) == EvalB(tout.succs[i].guard.expr, v)
        IN /\ Len(tout.succs) = n + 1
           /\ \A i \in 1 .. (n + 1) : tout.succs[i].guard.kind = "Pred"
           /\ \A i \in 1 .. n : tout.succs[i].target = t.targets[i][2]
           /\ tout.succs[n + 1].target = t.otherwise
           /\ \A i \in 1 .. n : \A v \in vals :
                 holds(i, v) <=> (IF t.discr = "bool"
                                  THEN (v # 0) = (t.targets[i][1] # 0)
                                  ELSE v = t.targets[i][1])
           /\ \A v \in vals : holds(n + 1, v) <=> \A i \in 1 .. n : ~holds(i, v)
           /\ \A v \in vals : Cardinality({i \in 1 .. (n + 1) : holds(i, v)}) = 1

C9_Witness ==
    /\ Applied("check_if")
    /\ tin.term.discr = "bool"
    /\ Len(tin.term.targets) = 2

\* C10: for a SwitchInt on the discriminant of an ADT with n variants each
\* listed value i is guarded by Match(place, variant i); otherwise is guarded
\* by Match(place, v) when v is the only variant not listed, and by
\* Guard::None when no variant or more than one is not listed.
C10_MatchGuards ==
    Applied("check_match") =>
        LET t == tin.term
            n == Len(t.targets)
            unlisted == {v \in 0 .. (t.nvariants - 1) :
                            \A i \in 1 .. n : t.targets[i][1] # v}
        IN /\ Len(tout.succs) = n + 1
           /\ \A i \in 1 .. n : tout.succs[i] = Succ(t.targets[i][2], GuardMatch(t.targets[i][1]))
           /\ tout.succs[n + 1].target = t.otherwise
           /\ \A v \in unlisted :
                 unlisted = {v} => tout.succs[n + 1].guard = GuardMatch(v)
           /\ Cardinality(unlisted) # 1 => tout.succs[n + 1].guard = GuardNone

C10_Witness ==
    /\ Applied("check_match")
    /\ tin.term.nvariants = 3
    /\ Len(tin.term.targets) = 1
    /\ tout.succs[2].guard = GuardNone

----------------------------------------------------------------------------
(* Terminators without successors *)

\* C11: checking a terminator of kind UnwindResume, CoroutineDrop or
\* Unreachable completes normally and yields an empty successor list.
C11_NoSuccessors ==
    (tin.op = "no_successors" /\ tout # TPending) =>
        (tout.result = "ok" /\ tout.succs = <<>>)

----------------------------------------------------------------------------
(* Integer casts: check_cast for CastKind::IntToInt *)

IntTys == {"i8", "i16", "i32", "i64", "i128", "isize"}
UintTys == {"u8", "u16", "u32", "u64", "u128", "usize"}

\* config::pointer_width().bits()
PointerWidths == {32, 64}

\* IntTy::bit_width / UintTy::bit_width: None for isize and usize
bit_width(ty) ==
    CASE ty \in {"i8", "u8"} -> 8
      [] ty \in {"i16", "u16"} -> 16
      [] ty \in {"i32", "u32"} -> 32
      [] ty \in {"i64", "u64"} -> 64
      [] ty \in {"i128", "u128"} -> 128
      [] OTHER -> 0 - 1

uint_bit_width(uint_ty, pw) == IF bit_width(uint_ty) = 0 - 1 THEN pw ELSE bit_width(uint_ty)
int_bit_width(int_ty, pw) == IF bit_width(int_ty) = 0 - 1 THEN pw ELSE bit_width(int_ty)

\* Ty::indexed(bty, idx), and Ty::int / Ty::uint: the type with no refinement
Indexed(bty, idx) == [bty |-> bty, refined |-> TRUE, idx |-> idx]
Unrefined(bty) == [bty |-> bty, refined |-> FALSE, idx |-> And(<<>>)]

Ite(b) == [op |-> "ite", args |-> <<b, Const(1), Const(0)>>, val |-> 0]

bool_int_cast(b, int_ty) == Indexed(int_ty, Ite(b))
bool_uint_cast(b, uint_ty) == Indexed(uint_ty, Ite(b))

int_int_cast_any_width(idx, int_ty1, int_ty2, pw) == Indexed(int_ty2, idx)
int_int_cast(idx, int_ty1, int_ty2, pw) ==
    IF int_bit_width(int_ty1, pw) <= int_bit_width(int_ty2, pw)
    THEN Indexed(int_ty2, idx) ELSE Unrefined(int_ty2)

uint_int_cast_same_width(idx, uint_ty, int_ty, pw) ==
    IF uint_bit_width(uint_ty, pw) <= int_bit_width(int_ty, pw)
    THEN Indexed(int_ty, idx) ELSE Unrefined(int_ty)
uint_int_cast(idx, uint_ty, int_ty, pw) ==
    IF uint_bit_width(uint_ty, pw) < int_bit_width(int_ty, pw)
    THEN Indexed(int_ty, idx) ELSE Unrefined(int_ty)

uint_uint_cast(idx, uint_ty1, uint_ty2, pw) ==
    IF uint_bit_width(uint_ty1, pw) <= uint_bit_width(uint_ty2, pw)
    THEN Indexed(uint_ty2, idx) ELSE Unrefined(uint_ty2)

\* check_cast, CastKind::IntToInt: from is the base type of the operand (its
\* index is Var), to the type cast to
check_cast(from, to, pw) ==
    CASE from = "bool" /\ to \in IntTys -> bool_int_cast(Var, to)
      [] from = "bool" /\ to \in UintTys -> bool_uint_cast(Var, to)
      [] from \in IntTys /\ to \in IntTys -> int_int_cast(Var, from, to, pw)
      [] from \in UintTys /\ to \in UintTys -> uint_uint_cast(Var, from, to, pw)
      [] from \in UintTys /\ to \in IntTys -> uint_int_cast(Var, from, to, pw)
      [] from \in IntTys /\ to \in UintTys -> Unrefined(to)

CastInputs ==
    {[op |-> "check_cast", from |-> f, to |-> t, pw |-> pw] :
        f \in {"bool"} \cup IntTys \cup UintTys, t \in IntTys \cup UintTys,
        pw \in PointerWidths}

CheckCast ==
    /\ tin.op = "check_cast"
    /\ tout = TPending
    /\ tout' = [result |-> "ok", ty |-> check_cast(tin.from, tin.to, tin.pw)]
    /\ UNCHANGED <<ckvars, tin>>

CastInit ==
    /\ CkInit(BodyDiamond, NoFault)
    /\ tin \in CastInputs
    /\ tout = TPending

CastNext == CheckCast

CastSpec == CastInit /\ [][CastNext]_vars

CastApplied == tin.op = "check_cast" /\ tin.from # "bool" /\ tout # TPending

CastWidth(ty) == IF ty \in IntTys THEN int_bit_width(ty, tin.pw) ELSE uint_bit_width(ty, tin.pw)

\* C12 as stated: an integer cast to a type at least as wide as the source
\* keeps the source's index, a cast to a narrower type gives the unrefined
\* target type, for any combination of signed and unsigned.
C12_WideningKeepsIndex ==
    CastApplied =>
        tout.ty = (IF CastWidth(tin.to) >= CastWidth(tin.from)
                   THEN Indexed(tin.to, Var) ELSE Unrefined(tin.to))

\* C12: an integer cast keeps the source's index when source and target have
\* the same signedness and the target is at least as wide, or when the source
\* is unsigned, the target signed and the target strictly wider; every other
\* integer cast (narrowing, unsigned to signed of the same width, signed to
\* unsigned of any width) gives the unrefined target type.
C12_CastIndex ==
    CastApplied =>
        LET same == (tin.from \in IntTys) = (tin.to \in IntTys)
            keeps == \/ same /\ CastWidth(tin.to) >= CastWidth(tin.from)
                     \/ /\ tin.from \in UintTys
                        /\ tin.to \in IntTys
                        /\ CastWidth(tin.to) > CastWidth(tin.from)
        IN tout.ty = (IF keeps THEN Indexed(tin.to, Var) ELSE Unrefined(tin.to))

C12_Witness ==
    /\ CastApplied
    /\ tin.from = "usize"
    /\ tin.to = "i64"
    /\ tin.pw = 64
    /\ ~tout.ty.refined

----------------------------------------------------------------------------
(* Obligations of a call or a return: check_closure_obligs *)

ClauseKinds == {"FnTrait", "GeneratorOblig", "Projection", "Trait", "TypeOutlives"}

\* a clause of obligs.predicates: closure says whether the self type of a
\* FnTrait clause is a closure, fails whether checking the clause against its
\* body returns Err
Clauses ==
    {[kind |-> k, closure |-> c, fails |-> f] :
        k \in ClauseKinds, c \in BOOLEAN, f \in BOOLEAN}

ObligOut(res, started) == [result |-> res, started |-> started]

\* the loop of check_closure_obligs from clause i on; started lists the
\* clauses for which Checker::run was called, subchecked the kinds that reach
\* a sub-check
RECURSIVE ObligsFrom(_, _, _, _)
ObligsFrom(preds, i, started, subchecked) ==
    IF i > Len(preds) THEN ObligOut("ok", started)
    ELSE LET c == preds[i]
         IN IF c.kind \notin subchecked
            THEN ObligsFrom(preds, i + 1, started, subchecked)
            ELSE IF c.kind = "FnTrait" /\ ~c.closure
            THEN ObligOut("panic", started)
            ELSE IF c.fails
            THEN ObligOut("err", Append(started, c))
            ELSE ObligsFrom(preds, i + 1, Append(started, c), subchecked)

check_closure_obligs_with_trait(preds) ==
    ObligsFrom(preds, 1, <<>>, {"FnTrait", "GeneratorOblig", "Trait"})
check_closure_obligs(preds) ==
    ObligsFrom(preds, 1, <<>>, {"FnTrait", "GeneratorOblig"})

ObligInputs ==
    UNION {{[op |-> "check_closure_obligs", preds |-> ps] :
               ps \in [1 .. n -> {c \in Clauses : c.closure \/ c.kind = "FnTrait"}]} :
           n \in 0 .. MaxObligs}

CheckClosureObligs ==
    /\ tin.op = "check_closure_obligs"
    /\ tout = TPending
    /\ tout' = check_closure_obligs(tin.preds)
    /\ UNCHANGED <<ckvars, tin>>

ObligInit ==
    /\ CkInit(BodyDiamond, NoFault)
    /\ tin \in ObligInputs
    /\ tout = TPending

ObligNext == CheckClosureObligs

ObligSpec == ObligInit /\ [][ObligNext]_vars

ObligApplied == tin.op = "check_closure_obligs" /\ tout # TPending

IsIgnored(c) == c.kind \in {"Projection", "Trait", "TypeOutlives"}

\* C13: when obligations are discharged, Projection, Trait and TypeOutlives
\* clauses never start a sub-check and never produce an error: the result is
\* that of the list without them, and a list of only such clauses checks
\* without error; only FnTrait and GeneratorOblig clauses start a checker run.
C13_IgnoredClauses ==
    ObligApplied =>
        LET ps == tin.preds
            others == SelectSeq(ps, LAMBDA c : ~IsIgnored(c))
        IN /\ \A i \in 1 .. Len(tout.started) :
                 tout.started[i].kind \in {"FnTrait", "GeneratorOblig"}
           /\ tout = check_closure_obligs(others)
           /\ tout.result = "err" =>
                 \E i \in 1 .. Len(ps) : ~IsIgnored(ps[i]) /\ ps[i].fails
           /\ (\A i \in 1 .. Len(ps) : IsIgnored(ps[i])) =>
                 tout = ObligOut("ok", <<>>)

C13_Witness ==
    /\ ObligApplied
    /\ Len(tin.preds) = 2
    /\ tin.preds[1].kind = "Trait"
    /\ tin.preds[1].fails
    /\ tin.preds[2].kind = "FnTrait"
    /\ tout.result = "ok"
    /\ Len(tout.started) = 1

----------------------------------------------------------------------------
(* Parameter gathering (flux-desugar gather.rs): the surface syntax *)

\* surface::RefineArg: Bind(ident, kind), Abs(params, body) or Expr(expr);
\* an expression, and the body of an Abs, is the sequence of the names it uses
RefineArg(k) == [kind |-> k, ident |-> "", bkind |-> "", params |-> <<>>, id |-> 0, uses |-> <<>>]
Bind(ident, bkind) == [RefineArg("Bind") EXCEPT !.ident = ident, !.bkind = bkind]
Abs(id, params, abs_body) == [RefineArg("Abs") EXCEPT !.id = id, !.params = params, !.uses = abs_body]
ExprArg(uses) == [RefineArg("Expr") EXCEPT !.uses = uses]

\* a use of a name in an expression: a single-segment path or the head of
\* a function application
UseVar(x) == [kind |-> "qpath", name |-> x]
UseApp(f) == [kind |-> "app", name |-> f]

\* surface::RefineParam
RefineParam(name, sort) == [name |-> name, sort |-> sort]

\* surface::Path: is_box is genv.is_box(res) of the resolved head
Path(id, is_box, refine, generics) ==
    [hole |-> FALSE, id |-> id, is_box |-> is_box, refine |-> refine, generics |-> generics]
Hole == [hole |-> TRUE, id |-> 0, is_box |-> FALSE, refine |-> <<>>, generics |-> <<>>]

\* surface::BaseTy
BtyPath(path) == [kind |-> "Path", path |-> <<path>>, ty |-> <<>>]
BtySlice(ty) == [kind |-> "Slice", path |-> <<>>, ty |-> <<ty>>]

\* surface::Ty
TyNode(k, id) ==
    [kind |-> k, id |-> id, bty |-> <<>>, indices |-> <<>>, tys |-> <<>>,
     params |-> <<>>, ex_bind |-> "", pred |-> <<>>, bounds |-> <<>>]
TyIndexed(id, bty, indices) == [TyNode("Indexed", id) EXCEPT !.bty = <<bty>>, !.indices = indices]
TyBase(id, bty) == [TyNode("Base", id) EXCEPT !.bty = <<bty>>]
TyRef(id, ty) == [TyNode("Ref", id) EXCEPT !.tys = <<ty>>]
TyConstr(id, pred, ty) == [TyNode("Constr", id) EXCEPT !.pred = pred, !.tys = <<ty>>]
TyTuple(id, tys) == [TyNode("Tuple", id) EXCEPT !.tys = tys]
TyArray(id, ty) == [TyNode("Array", id) EXCEPT !.tys = <<ty>>]
TyExists(id, ex_bind, bty, pred) ==
    [TyNode("Exists", id) EXCEPT !.ex_bind = ex_bind, !.bty = <<bty>>, !.pred = pred]
TyGeneralExists(id, params, ty, pred) ==
    [TyNode("GeneralExists", id) EXCEPT !.params = params, !.tys = <<ty>>, !.pred = pred]
TyImplTrait(id, bounds) == [TyNode("ImplTrait", id) EXCEPT !.bounds = bounds]

\* surface::Arg: bind is the empty sequence when there is no binder
ArgConstr(bind, path, pred) == [kind |-> "Constr", bind |-> <<bind>>, path |-> <<path>>, ty |-> <<>>, pred |-> pred]
ArgStrgRef(loc, ty) == [kind |-> "StrgRef", bind |-> <<loc>>, path |-> <<>>, ty |-> <<ty>>, pred |-> <<>>]
ArgTy(bind, ty) == [kind |-> "Ty", bind |-> bind, path |-> <<>>, ty |-> <<ty>>, pred |-> <<>>]

\* surface::Constraint of an ensures clause: Type(loc, ty) or Pred(expr)
EnsuresType(loc, ty) == [kind |-> "Type", loc |-> loc, ty |-> <<ty>>, pred |-> <<>>]
EnsuresPred(pred) == [kind |-> "Pred", loc |-> "", ty |-> <<>>, pred |-> pred]

\* surface::WhereBoundPredicate
WherePredicate(bounded_ty, bounds) == [bounded_ty |-> bounded_ty, bounds |-> bounds]

\* surface::TyAlias and surface::StructDef
TyAlias(id, refined_by, ty) == [id |-> id, refined_by |-> refined_by, ty |-> ty]
StructDef(id, refined_by, fields) == [id |-> id, refined_by |-> refined_by, fields |-> fields]

\* surface::FnSig: generics holds the refinement generics, returns is empty
\* for FnRetTy::Default
FnSig(id, generics, requires, args, returns, ensures, predicates) ==
    [id |-> id, generics |-> generics, requires |-> requires, args |-> args,
     returns |-> returns, ensures |-> ensures, predicates |-> predicates]

----------------------------------------------------------------------------
(* The gathering env: env::Env<Param> *)

\* gather.rs Param
Explicit(sort) == [kind |-> "Explicit", sort |-> sort]
At == [kind |-> "At", sort |-> ""]
Pound == [kind |-> "Pound", sort |-> ""]
Colon == [kind |-> "Colon", sort |-> ""]
SyntaxError == [kind |-> "SyntaxError", sort |-> ""]

\* impl From<surface::BindKind> for Param
ParamFrom(bkind) == IF bkind = "At" THEN At ELSE Pound

\* TypePos::is_binder_allowed
is_binder_allowed_anywhere(pos, bkind) == pos \in {"Input", "Output"}
is_binder_allowed(pos, bkind) ==
    CASE pos = "Input" -> bkind = "At"
      [] pos = "Output" -> bkind = "Pound"
      [] OTHER -> FALSE

ScopeId(tag, node) == [tag |-> tag, node |-> node]
NoScope == ScopeId("None", 0)

\* Env::new(scope_id)
EnvNew(sid) == [scopes |-> (sid :> [parent |-> NoScope, params |-> <<>>]), cur |-> sid]

\* Env::push: a new scope below the current one, which becomes current
env_push(env, sid) ==
    [scopes |-> env.scopes @@ (sid :> [parent |-> env.cur, params |-> <<>>]), cur |-> sid]

\* Env::exit: back to the parent of the current scope
env_exit(env) == [env EXCEPT !.cur = env.scopes[env.cur].parent]

\* Env::enter: the use-checking pass walks into a scope pass 1 created
env_enter(env, sid) == [env EXCEPT !.cur = sid]

ScopeNames(env, sid) ==
    {env.scopes[sid].params[i].name : i \in 1 .. Len(env.scopes[sid].params)}

\* the state threaded through gathering: the env, whether the call
\* returned Ok, the diagnostics emitted, the implicit binders declared with
\* the position they were declared in, the uses the second pass checked,
\* and the finalized env
EmptyEnv == [scopes |-> <<>>, cur |-> NoScope]
GState(env) ==
    [env |-> env, ok |-> TRUE, diags |-> <<>>, decls |-> <<>>, uses |-> <<>>, final |-> EmptyEnv]
Fail(g, diag) == [g EXCEPT !.ok = FALSE, !.diags = Append(@, diag)]

\* `f(g)?; k(g)`: k runs on the state f left only if f returned Ok
OkThen(g, k(_)) == IF g.ok THEN k(g) ELSE g

\* one step of try_for_each_exhaust: r is the state after the element was
\* visited from an Ok state, the loop stays failed once an element failed
Exhaust(prev_ok, r) == [r EXCEPT !.ok = prev_ok /\ r.ok]

PushScope(g, sid) == [g EXCEPT !.env = env_push(g.env, sid)]
ExitScope(g) == [g EXCEPT !.env = env_exit(g.env)]

DuplicateParam(name) == [err |-> "DuplicateParam", name |-> name]

\* Env::insert: a name already declared in the current scope is an error
env_insert_shadows(g, name, param) ==
    [g EXCEPT !.env.scopes[g.env.cur].params =
                  Append(@, [name |-> name, param |-> param, used |-> FALSE])]
env_insert(g, name, param) ==
    IF name \in ScopeNames(g.env, g.env.cur)
    THEN Fail(g, DuplicateParam(name))
    ELSE [g EXCEPT !.env.scopes[g.env.cur].params =
                       Append(@, [name |-> name, param |-> param, used |-> FALSE])]

\* Env::extend: insert every (name, param) of the list, stopping at an error
RECURSIVE env_extend(_, _)
env_extend(g, params) ==
    IF params = <<>> THEN g
    ELSE OkThen(env_insert(g, Head(params).name, Explicit(Head(params).sort)),
                LAMBDA g1 : env_extend(g1, Tail(params)))

----------------------------------------------------------------------------
(* Pass 1: declaration gathering *)

IllegalBinder(bkind) == [err |-> "IllegalBinder", name |-> bkind]

\* resolve_params: every sort is resolved before any param is inserted
resolve_params(g, params) ==
    IF \E i \in 1 .. Len(params) : params[i].sort = "unresolved"
    THEN Fail(g, [err |-> "UnresolvedSort", name |-> ""])
    ELSE g

\* `if let Some(bind) = bind { env.insert(sess, bind, param)?; }`
insert_bind(g, bind, param) ==
    IF bind = <<>> THEN g ELSE env_insert(g, bind[1], param)

Declared(g, arg, pos, sid) ==
    [g EXCEPT !.decls = Append(@, [name |-> arg.ident, bkind |-> arg.bkind,
                                   pos |-> pos, scope |-> sid])]

\* gather_params_refine_arg
gather_params_refine_arg(arg, pos, g) ==
    CASE arg.kind = "Bind" ->
            IF ~is_binder_allowed(pos, arg.bkind)
            THEN Fail(g, IllegalBinder(arg.bkind))
            ELSE OkThen(env_insert(g, arg.ident, ParamFrom(arg.bkind)),
                        LAMBDA g1 : Declared(g1, arg, pos, g.env.cur))
      [] arg.kind = "Abs" ->
            OkThen(OkThen(resolve_params(PushScope(g, ScopeId("Abs", arg.id)), arg.params),
                          LAMBDA g2 : env_extend(g2, arg.params)),
                   LAMBDA g3 : ExitScope(g3))
      [] OTHER -> g

\* gather_params_indices: try_for_each_exhaust visits every index, also
\* after one of them failed, and fails if any of them did
RECURSIVE gather_params_indices(_, _, _)
gather_params_indices(indices, pos, g) ==
    IF indices = <<>> THEN g
    ELSE gather_params_indices(
             Tail(indices), pos,
             Exhaust(g.ok, gather_params_refine_arg(Head(indices), pos, [g EXCEPT !.ok = TRUE])))

\* the position in which the generic arguments of a path are gathered
generic_pos_keeps(is_box, pos) == pos
generic_pos(is_box, pos) == IF is_box THEN pos ELSE "Generic"

\* the position in which the body of a GeneralExists is gathered
general_exists_pos_outer(pos) == pos
general_exists_pos(pos) == "Other"

\* the first binder among the refinement arguments of a path
FirstBind(refine) ==
    refine[CHOOSE i \in 1 .. Len(refine) :
               /\ refine[i].kind = "Bind"
               /\ \A j \in 1 .. (i - 1) : refine[j].kind # "Bind"]

RECURSIVE gather_params_ty(_, _, _, _), gather_params_bty(_, _, _),
          gather_params_path(_, _, _), gather_params_generic_args(_, _, _),
          gather_params_tys(_, _, _), gather_params_bounds(_, _)

\* gather_params_path
gather_params_path(path, pos, g) ==
    IF path.hole THEN g
    ELSE IF \E i \in 1 .. Len(path.refine) : path.refine[i].kind = "Bind"
    THEN Fail(g, IllegalBinder(FirstBind(path.refine).bkind))
    ELSE gather_params_generic_args(path.generics, generic_pos(path.is_box, pos), g)

\* path.generics.iter().try_for_each_exhaust(gather_params_generic_arg)
gather_params_generic_args(args, pos, g) ==
    IF args = <<>> THEN g
    ELSE gather_params_generic_args(
             Tail(args), pos,
             Exhaust(g.ok, gather_params_ty(<<>>, Head(args), pos, [g EXCEPT !.ok = TRUE])))

\* gather_params_bty
gather_params_bty(bty, pos, g) ==
    IF bty.kind = "Path" THEN gather_params_path(bty.path[1], pos, g)
    ELSE gather_params_ty(<<>>, bty.ty[1], "Other", g)

\* the loop over the fields of a tuple: stops at the first error
gather_params_tys(tys, pos, g) ==
    IF tys = <<>> THEN g
    ELSE OkThen(gather_params_ty(<<>>, Head(tys), pos, g),
                LAMBDA r : gather_params_tys(Tail(tys), pos, r))

\* the loop over the bounds of an impl Trait or of a where predicate
gather_params_bounds(bounds, g) ==
    IF bounds = <<>> THEN g
    ELSE OkThen(gather_params_path(Head(bounds), "Other", g),
                LAMBDA r : gather_params_bounds(Tail(bounds), r))

\* gather_params_ty
gather_params_ty(bind, ty, pos, g) ==
    CASE ty.kind = "Indexed" ->
            OkThen(OkThen(insert_bind(g, bind, SyntaxError),
                          LAMBDA g1 : gather_params_indices(ty.indices, pos, g1)),
                   LAMBDA g2 : gather_params_bty(ty.bty[1], pos, g2))
      [] ty.kind = "Base" ->
            OkThen(insert_bind(g, bind, Colon),
                   LAMBDA g1 : gather_params_bty(ty.bty[1], pos, g1))
      [] ty.kind \in {"Ref", "Constr"} ->
            OkThen(insert_bind(g, bind, SyntaxError),
                   LAMBDA g1 : gather_params_ty(<<>>, ty.tys[1], pos, g1))
      [] ty.kind = "Tuple" ->
            OkThen(insert_bind(g, bind, SyntaxError),
                   LAMBDA g1 : gather_params_tys(ty.tys, pos, g1))
      [] ty.kind = "Array" ->
            OkThen(insert_bind(g, bind, SyntaxError),
                   LAMBDA g1 : gather_params_ty(<<>>, ty.tys[1], "Other", g1))
      [] ty.kind = "Exists" ->
            OkThen(OkThen(OkThen(insert_bind(g, bind, SyntaxError),
                                 LAMBDA g1 : env_insert(PushScope(g1, ScopeId("Exists", ty.id)),
                                                        ty.ex_bind, Explicit("Wildcard"))),
                          LAMBDA g3 : gather_params_bty(ty.bty[1], pos, g3)),
                   LAMBDA g4 : ExitScope(g4))
      [] ty.kind = "GeneralExists" ->
            OkThen(OkThen(OkThen(OkThen(insert_bind(g, bind, SyntaxError),
                                        LAMBDA g1 : resolve_params(
                                                        PushScope(g1, ScopeId("Exists", ty.id)),
                                                        ty.params)),
                                 LAMBDA g3 : env_extend(g3, ty.params)),
                          LAMBDA g4 : gather_params_ty(<<>>, ty.tys[1],
                                                       general_exists_pos(pos), g4)),
                   LAMBDA g5 : ExitScope(g5))
      [] ty.kind = "ImplTrait" ->
            gather_params_bounds(ty.bounds, g)

\* gather_params_fun_arg
gather_params_fun_arg(arg, g) ==
    CASE arg.kind = "Constr" ->
            OkThen(env_insert(g, arg.bind[1], Colon),
                   LAMBDA g1 : gather_params_path(arg.path[1], "Input", g1))
      [] arg.kind = "StrgRef" ->
            OkThen(env_insert(g, arg.bind[1], Explicit("Loc")),
                   LAMBDA g1 : gather_params_ty(<<>>, arg.ty[1], "Input", g1))
      [] arg.kind = "Ty" -> gather_params_ty(arg.bind, arg.ty[1], "Input", g)

\* the loops of gather_params_fn_sig_input: each stops at the first error
RECURSIVE gather_params_generics(_, _)
gather_params_generics(generics, g) ==
    IF generics = <<>> THEN g
    ELSE OkThen(OkThen(resolve_params(g, <<Head(generics)>>),
                       LAMBDA g1 : env_insert(g1, Head(generics).name,
                                              Explicit(Head(generics).sort))),
                LAMBDA g2 : gather_params_generics(Tail(generics), g2))

RECURSIVE gather_params_fun_args(_, _)
gather_params_fun_args(args, g) ==
    IF args = <<>> THEN g
    ELSE OkThen(gather_params_fun_arg(Head(args), g),
                LAMBDA r : gather_params_fun_args(Tail(args), r))

\* gather_params_predicates
RECURSIVE gather_params_predicates(_, _)
gather_params_predicates(predicates, g) ==
    IF predicates = <<>> THEN g
    ELSE OkThen(OkThen(gather_params_ty(<<>>, Head(predicates).bounded_ty, "Other", g),
                       LAMBDA g1 : gather_params_bounds(Head(predicates).bounds, g1)),
                LAMBDA g2 : gather_params_predicates(Tail(predicates), g2))

\* gather_params_fn_sig_input
gather_params_fn_sig_input(fn_sig, g) ==
    OkThen(OkThen(gather_params_generics(fn_sig.generics, g),
                  LAMBDA g1 : gather_params_fun_args(fn_sig.args, g1)),
           LAMBDA g2 : gather_params_predicates(fn_sig.predicates, g2))

RECURSIVE gather_params_ensures(_, _)
gather_params_ensures(ensures, g) ==
    IF ensures = <<>> THEN g
    ELSE IF Head(ensures).kind # "Type" THEN gather_params_ensures(Tail(ensures), g)
    ELSE OkThen(gather_params_ty(<<>>, Head(ensures).ty[1], "Output", g),
                LAMBDA r : gather_params_ensures(Tail(ensures), r))

\* gather_params_fn_sig_output
gather_params_fn_sig_output(fn_sig, g) ==
    OkThen(IF fn_sig.returns = <<>> THEN g
           ELSE gather_params_ty(<<>>, fn_sig.returns[1], "Output", g),
           LAMBDA g1 : gather_params_ensures(fn_sig.ensures, g1))

----------------------------------------------------------------------------
(* Pass 2: use checking (CheckParamUses) *)

\* Env::get_with_scope: the innermost scope, from the current one outwards,
\* that declares ident; the empty sequence when none does
RECURSIVE get_with_scope_from(_, _, _)
get_with_scope_from(env, sid, ident) ==
    IF sid = NoScope THEN <<>>
    ELSE IF ident \in ScopeNames(env, sid)
    THEN LET ps == env.scopes[sid].params
             i == CHOOSE i \in 1 .. Len(ps) : ps[i].name = ident
         IN <<[scope |-> sid, param |-> ps[i].param]>>
    ELSE get_with_scope_from(env, env.scopes[sid].parent, ident)

get_with_scope(env, ident) == get_with_scope_from(env, env.cur, ident)

\* Scope::mark_as_used
mark_as_used(env, sid, ident) ==
    [env EXCEPT !.scopes[sid].params =
        [i \in 1 .. Len(@) |-> IF @[i].name = ident THEN [@[i] EXCEPT !.used = TRUE] ELSE @[i]]]

\* CheckParamUses::new: uses lists, for each use checked, the name and the
\* kind of param it resolved to
CheckParamUses(env) == [env |-> env, error |-> FALSE, diags |-> <<>>, uses |-> <<>>]

InvalidUnrefinedParam(ident) == [err |-> "InvalidUnrefinedParam", name |-> ident]

\* the kind of param a lookup found
Found(r) == IF r = <<>> THEN "None" ELSE r[1].param.kind

Used(v, ident, r) == [v EXCEPT !.uses = Append(@, [name |-> ident, kind |-> Found(r)])]

\* the arms of the match of CheckParamUses::check_use on the lookup r
check_use_first_error_only(v, ident, r) ==
    CASE Found(r) = "None" -> Used(v, ident, r)
      [] Found(r) = "SyntaxError" ->
            IF v.error THEN Used(v, ident, r)
            ELSE [Used(v, ident, r) EXCEPT !.error = TRUE,
                                           !.diags = Append(@, InvalidUnrefinedParam(ident))]
      [] OTHER -> [Used(v, ident, r) EXCEPT !.env = mark_as_used(v.env, r[1].scope, ident)]
check_use_found(v, ident, r) ==
    CASE Found(r) = "None" -> Used(v, ident, r)
      [] Found(r) = "SyntaxError" ->
            [Used(v, ident, r) EXCEPT !.error = TRUE,
                                      !.diags = Append(@, InvalidUnrefinedParam(ident))]
      [] OTHER -> [Used(v, ident, r) EXCEPT !.env = mark_as_used(v.env, r[1].scope, ident)]

\* CheckParamUses::check_use
check_use(v, ident) == check_use_found(v, ident, get_with_scope(v.env, ident))

VEnter(v, sid) == [v EXCEPT !.env = env_enter(v.env, sid)]
VExit(v) == [v EXCEPT !.env = env_exit(v.env)]

\* visit_expr / visit_qpath_expr over the names an expression uses
RECURSIVE visit_expr(_, _)
visit_expr(v, uses) ==
    IF uses = <<>> THEN v ELSE visit_expr(check_use(v, Head(uses).name), Tail(uses))

RECURSIVE visit_ty(_, _), visit_tys(_, _), visit_bty(_, _), visit_path(_, _),
          visit_paths(_, _), visit_refine_args(_, _)

\* walk_refine_arg over a list of arguments: the body of an Abs is walked
\* in the scope of the enclosing type, no Abs scope is entered
visit_refine_args(v, args) ==
    IF args = <<>> THEN v
    ELSE visit_refine_args(IF Head(args).kind \in {"Expr", "Abs"}
                           THEN visit_expr(v, Head(args).uses)
                           ELSE v,
                           Tail(args))

\* walk_path
visit_path(v, path) ==
    IF path.hole THEN v
    ELSE visit_refine_args(visit_tys(v, path.generics), path.refine)

visit_paths(v, paths) ==
    IF paths = <<>> THEN v ELSE visit_paths(visit_path(v, Head(paths)), Tail(paths))

\* walk_bty
visit_bty(v, bty) ==
    IF bty.kind = "Path" THEN visit_path(v, bty.path[1]) ELSE visit_ty(v, bty.ty[1])

visit_tys(v, tys) ==
    IF tys = <<>> THEN v ELSE visit_tys(visit_ty(v, Head(tys)), Tail(tys))

\* CheckParamUses::visit_ty
visit_ty(v, ty) ==
    CASE ty.kind = "Exists" ->
            VExit(visit_expr(visit_bty(VEnter(v, ScopeId("Exists", ty.id)), ty.bty[1]),
                             ty.pred))
      [] ty.kind = "GeneralExists" ->
            VExit(visit_expr(visit_ty(VEnter(v, ScopeId("Exists", ty.id)), ty.tys[1]),
                             ty.pred))
      [] ty.kind = "Indexed" -> visit_refine_args(visit_bty(v, ty.bty[1]), ty.indices)
      [] ty.kind = "Base" -> visit_bty(v, ty.bty[1])
      [] ty.kind = "Constr" -> visit_ty(visit_expr(v, ty.pred), ty.tys[1])
      [] ty.kind = "ImplTrait" -> visit_paths(v, ty.bounds)
      [] OTHER -> visit_tys(v, ty.tys)

\* walk_fun_arg
visit_fun_arg(v, arg) ==
    IF arg.kind = "Constr" THEN visit_expr(visit_path(v, arg.path[1]), arg.pred)
    ELSE visit_ty(v, arg.ty[1])

RECURSIVE visit_fun_args(_, _)
visit_fun_args(v, args) ==
    IF args = <<>> THEN v ELSE visit_fun_args(visit_fun_arg(v, Head(args)), Tail(args))

\* CheckParamUses::visit_constraint
visit_constraint(v, c) ==
    IF c.kind = "Type" THEN visit_ty(check_use(v, c.loc), c.ty[1])
    ELSE visit_expr(v, c.pred)

RECURSIVE visit_constraints(_, _)
visit_constraints(v, ensures) ==
    IF ensures = <<>> THEN v
    ELSE visit_constraints(visit_constraint(v, Head(ensures)), Tail(ensures))

RECURSIVE visit_where_predicates(_, _)
visit_where_predicates(v, predicates) ==
    IF predicates = <<>> THEN v
    ELSE visit_where_predicates(
             visit_paths(visit_ty(v, Head(predicates).bounded_ty), Head(predicates).bounds),
             Tail(predicates))

\* CheckParamUses::visit_fn_sig
visit_fn_sig(v, fn_sig) ==
    VExit(visit_constraints(
              visit_tys(VEnter(visit_fun_args(
                                   visit_expr(visit_where_predicates(v, fn_sig.predicates),
                                              fn_sig.requires),
                                   fn_sig.args),
                               ScopeId("FnOutput", fn_sig.id)),
                        fn_sig.returns),
              fn_sig.ensures))

\* CheckParamUses::run: the state of gathering after the visitor v ran
run(g, v) ==
    [g EXCEPT !.env = v.env, !.ok = ~v.error, !.diags = @ \o v.diags, !.uses = v.uses]

\* check_param_uses(env, |vis| vis.visit_fn_sig(fn_sig))
check_param_uses(fn_sig, g) == run(g, visit_fn_sig(CheckParamUses(g.env), fn_sig))

----------------------------------------------------------------------------
(* Finalization and the entry points *)

\* the closure of Env::into_desugar_env: the empty sequence for None
desugar_param_keeps_unused(p) ==
    CASE p.param.kind = "Explicit" -> <<[name |-> p.name, sort |-> p.param.sort, kind |-> "Explicit"]>>
      [] p.param.kind = "At" -> <<[name |-> p.name, sort |-> "Wildcard", kind |-> "At"]>>
      [] p.param.kind = "Pound" -> <<[name |-> p.name, sort |-> "Wildcard", kind |-> "Pound"]>>
      [] p.param.kind = "Colon" -> <<[name |-> p.name, sort |-> "Wildcard", kind |-> "Colon"]>>
      [] p.param.kind = "SyntaxError" -> <<>>
desugar_param(p) ==
    CASE p.param.kind = "Explicit" -> <<[name |-> p.name, sort |-> p.param.sort, kind |-> "Explicit"]>>
      [] p.param.kind = "At" -> <<[name |-> p.name, sort |-> "Wildcard", kind |-> "At"]>>
      [] p.param.kind = "Pound" -> <<[name |-> p.name, sort |-> "Wildcard", kind |-> "Pound"]>>
      [] p.param.kind = "Colon" ->
            IF p.used THEN <<[name |-> p.name, sort |-> "Wildcard", kind |-> "Colon"]>>
            ELSE <<>>
      [] p.param.kind = "SyntaxError" -> <<>>

\* Env::filter_map over the params of one scope
RECURSIVE filter_map(_)
filter_map(params) ==
    IF params = <<>> THEN <<>> ELSE desugar_param(Head(params)) \o filter_map(Tail(params))

\* Env::into_desugar_env
into_desugar_env(env) ==
    [scopes |-> [sid \in DOMAIN env.scopes |->
                    [parent |-> env.scopes[sid].parent,
                     params |-> filter_map(env.scopes[sid].params)]],
     cur |-> env.cur]

\* `Ok(env.into_desugar_env())`
Finalize(g) == [g EXCEPT !.final = into_desugar_env(g.env)]

\* the Result an entry point returns, with the env as gathering left it
GatherOut(g) ==
    [result |-> IF g.ok THEN "ok" ELSE "err", env |-> g.final, gathered |-> g.env,
     diags |-> g.diags, decls |-> g.decls, uses |-> g.uses]

\* gather_params_fn_sig
gather_params_fn_sig(fn_sig) ==
    GatherOut(
        OkThen(OkThen(OkThen(OkThen(gather_params_fn_sig_input(
                                        fn_sig, GState(EnvNew(ScopeId("FnInput", fn_sig.id)))),
                                    LAMBDA g1 : gather_params_fn_sig_output(
                                                    fn_sig,
                                                    PushScope(g1, ScopeId("FnOutput", fn_sig.id)))),
                             LAMBDA g3 : ExitScope(g3)),
                      LAMBDA g4 : check_param_uses(fn_sig, g4)),
               LAMBDA g5 : Finalize(g5)))

\* gather_params_type_alias
gather_params_type_alias(ty_alias) ==
    GatherOut(
        OkThen(OkThen(OkThen(resolve_params(GState(EnvNew(ScopeId("TyAlias", ty_alias.id))),
                                            ty_alias.refined_by),
                             LAMBDA g1 : env_extend(g1, ty_alias.refined_by)),
                      LAMBDA g2 : gather_params_ty(<<>>, ty_alias.ty, "Other", g2)),
               LAMBDA g3 : Finalize(g3)))

\* the fields of a struct: try_for_each_exhaust visits every field
RECURSIVE gather_params_fields(_, _)
gather_params_fields(fields, g) ==
    IF fields = <<>> THEN g
    ELSE gather_params_fields(
             Tail(fields),
             Exhaust(g.ok, gather_params_ty(<<>>, Head(fields), "Field", [g EXCEPT !.ok = TRUE])))

\* gather_params_struct
gather_params_struct(struct_def) ==
    GatherOut(
        OkThen(OkThen(OkThen(resolve_params(GState(EnvNew(ScopeId("Struct", struct_def.id))),
                                            struct_def.refined_by),
                             LAMBDA g1 : env_extend(g1, struct_def.refined_by)),
                      LAMBDA g2 : gather_params_fields(struct_def.fields, g2)),
               LAMBDA g3 : Finalize(g3)))

----------------------------------------------------------------------------
(* The gathering specification: an item is drawn, then gathered once *)

MaxIndices == 2
MaxDepth == 3
MaxArgs == 2
MaxUses == 2

SeqsUpTo(S, lo, hi) == UNION {[1 .. n -> S] : n \in lo .. hi}

TypePos == {"Input", "Output", "Field", "Generic", "Other"}

IntPath == Path(1, FALSE, <<>>, <<>>)
BaseInt(id) == TyBase(id, BtyPath(IntPath))
Ix(id, indices) == TyIndexed(id, BtyPath(IntPath), indices)

\* the item whose gathering reaches ty in position pos, and the scope that
\* is current there
Place(pos, ty) ==
    CASE pos = "Input" ->
            [op |-> "fn_sig", scope |-> ScopeId("FnInput", 1),
             item |-> FnSig(1, <<>>, <<>>, <<ArgTy(<<>>, ty)>>, <<>>, <<>>, <<>>)]
      [] pos = "Output" ->
            [op |-> "fn_sig", scope |-> ScopeId("FnOutput", 1),
             item |-> FnSig(1, <<>>, <<>>, <<>>, <<ty>>, <<>>, <<>>)]
      [] pos = "Field" ->
            [op |-> "struct", scope |-> ScopeId("Struct", 1),
             item |-> StructDef(1, <<>>, <<ty>>)]
      [] pos = "Generic" ->
            [op |-> "fn_sig", scope |-> ScopeId("FnInput", 1),
             item |-> FnSig(1, <<>>, <<>>,
                            <<ArgTy(<<>>, TyBase(90, BtyPath(Path(91, FALSE, <<>>, <<ty>>))))>>,
                            <<>>, <<>>, <<>>)]
      [] pos = "Other" ->
            [op |-> "type_alias", scope |-> ScopeId("TyAlias", 1),
             item |-> TyAlias(1, <<>>, ty)]

\* binders in the indices of an indexed type, in every position; inner adds
\* a binder below the base type, gathered after the indices
BinderArgs ==
    {Bind("n", "At"), Bind("n", "Pound"), Bind("m", "At"), Bind("m", "Pound"), ExprArg(<<>>)}

InnerKind(pos) == IF pos = "Output" THEN "Pound" ELSE "At"

BinderTy(pos, indices, inner) ==
    TyIndexed(2,
              BtyPath(Path(3, TRUE, <<>>,
                           IF inner THEN <<Ix(4, <<Bind("p", InnerKind(pos))>>)>> ELSE <<>>)),
              indices)

BinderInputs ==
    {[fam |-> "binder", pos |-> pos, indices |-> ix, inner |-> inner]
        @@ Place(pos, BinderTy(pos, ix, inner)) :
        pos \in TypePos, ix \in SeqsUpTo(BinderArgs, 1, MaxIndices), inner \in BOOLEAN}

\* a binder below a chain of type constructors
Links == {"Box", "Path", "Ref", "Array", "Slice", "GeneralExists"}

Wrap(link, id, ty) ==
    CASE link = "Box" -> TyBase(id, BtyPath(Path(id, TRUE, <<>>, <<ty>>)))
      [] link = "Path" -> TyBase(id, BtyPath(Path(id, FALSE, <<>>, <<ty>>)))
      [] link = "Ref" -> TyRef(id, ty)
      [] link = "Array" -> TyArray(id, ty)
      [] link = "Slice" -> TyBase(id, BtySlice(ty))
      [] link = "GeneralExists" -> TyGeneralExists(id, <<>>, ty, <<>>)

RECURSIVE Nest(_, _)
Nest(chain, leaf) ==
    IF chain = <<>> THEN leaf ELSE Wrap(Head(chain), 10 + Len(chain), Nest(Tail(chain), leaf))

NestedInputs ==
    {[fam |-> "nested", pos |-> pos, chain |-> chain, bkind |-> k]
        @@ Place(pos, Nest(chain, Ix(5, <<Bind("n", k)>>))) :
        pos \in {"Input", "Output"}, chain \in SeqsUpTo(Links, 1, MaxDepth),
        k \in {"At", "Pound"}}

\* a GeneralExists with a binder, or none, somewhere inside
ExistsParams ==
    {<<>>, <<RefineParam("a", "int")>>, <<RefineParam("a", "int"), RefineParam("b", "bool")>>}

GExistsInputs ==
    {[fam |-> "gexists", pos |-> pos, params |-> ps, chain |-> chain, bkind |-> k]
        @@ Place(pos, TyGeneralExists(7, ps,
                          Nest(chain, Ix(5, IF k = "None" THEN <<ExprArg(<<UseVar("a")>>)>>
                                            ELSE <<Bind("n", k)>>)),
                          <<>>)) :
        pos \in {"Input", "Output"}, ps \in ExistsParams,
        chain \in SeqsUpTo({"Box", "Ref"}, 0, MaxDepth - 1), k \in {"At", "Pound", "None"}}

\* declarations of the names x and y by the arguments and the output of a
\* signature
ArgShapes == {"colon", "strg", "constr", "at", "exists"}

DeclArg(shape, name, id) ==
    CASE shape = "colon" -> ArgTy(<<name>>, BaseInt(id))
      [] shape = "strg" -> ArgStrgRef(name, BaseInt(id))
      [] shape = "constr" -> ArgConstr(name, IntPath, <<>>)
      [] shape = "at" -> ArgTy(<<>>, Ix(id, <<Bind(name, "At")>>))
      [] shape = "exists" ->
            ArgTy(<<name>>, TyExists(id, "x", BtyPath(IntPath), <<>>))

OutShapes == {"none", "pound", "pound_twice", "exists"}

DeclOut(out) ==
    CASE out = "none" -> <<>>
      [] out = "pound" -> <<Ix(8, <<Bind("x", "Pound")>>)>>
      [] out = "pound_twice" -> <<Ix(8, <<Bind("x", "Pound"), Bind("x", "Pound")>>)>>
      [] out = "exists" -> <<TyExists(8, "x", BtyPath(IntPath), <<UseVar("x")>>)>>

DupInputs ==
    {[fam |-> "dups", op |-> "fn_sig", decls |-> ds, out |-> out,
      item |-> FnSig(1, <<>>, <<>>,
                     [i \in 1 .. Len(ds) |-> DeclArg(ds[i].shape, ds[i].name, 20 + i)],
                     DeclOut(out), <<>>, <<>>)] :
        ds \in SeqsUpTo([shape : ArgShapes, name : {"x", "y"}], 1, MaxArgs),
        out \in OutShapes}

\* an argument x: T and the uses of x in the signature
BindTyKinds ==
    {"Indexed", "Ref", "Constr", "Tuple", "Array", "Exists", "GeneralExists", "Base"}

BindTy(k) ==
    CASE k = "Indexed" -> Ix(30, <<ExprArg(<<>>)>>)
      [] k = "Ref" -> TyRef(30, BaseInt(31))
      [] k = "Constr" -> TyConstr(30, <<>>, BaseInt(31))
      [] k = "Tuple" -> TyTuple(30, <<BaseInt(31), BaseInt(32)>>)
      [] k = "Array" -> TyArray(30, BaseInt(31))
      [] k = "Exists" -> TyExists(30, "v", BtyPath(IntPath), <<UseVar("v")>>)
      [] k = "GeneralExists" -> TyGeneralExists(30, <<RefineParam("v", "int")>>, BaseInt(31), <<>>)
      [] k = "Base" -> BaseInt(30)

UseKinds == {UseVar("x"), UseApp("x"), UseVar("y")}

UseInputs ==
    {[fam |-> "uses", op |-> "fn_sig", tykind |-> k, requires |-> req, retuse |-> ru,
      ensloc |-> el, shadow |-> sh,
      item |-> FnSig(1, <<>>, req,
                     <<ArgTy(<<"x">>, BindTy(k))>>
                         \o (IF sh THEN <<ArgTy(<<>>, TyExists(40, "x", BtyPath(IntPath),
                                                              <<UseVar("x")>>))>>
                             ELSE <<>>),
                     IF ru THEN <<Ix(41, <<ExprArg(<<UseVar("x")>>)>>)>> ELSE <<>>,
                     IF el THEN <<EnsuresType("x", BaseInt(42))>> ELSE <<>>,
                     <<>>)] :
        k \in BindTyKinds, req \in SeqsUpTo(UseKinds, 0, MaxUses),
        ru \in BOOLEAN, el \in BOOLEAN, sh \in BOOLEAN}

\* a binder below the base type of a short-form existential {v. B[v] | p},
\* itself below a chain of boxes and references, and uses of the binder in
\* what follows: the next argument and the output for an argument, an
\* ensures clause for the output
ShortExistsTy(is_box, k) ==
    TyExists(50, "v",
             BtyPath(Path(51, is_box, <<>>, <<Ix(52, <<Bind("n", k)>>)>>)),
             <<UseVar("v")>>)

ShortExistsInputs ==
    {[fam |-> "short_exists", op |-> "fn_sig", pos |-> pos, chain |-> chain,
      is_box |-> is_box, bkind |-> k,
      item |-> IF pos = "Input"
               THEN FnSig(1, <<>>, <<>>,
                          <<ArgTy(<<>>, Nest(chain, ShortExistsTy(is_box, k))),
                            ArgTy(<<>>, Ix(60, <<ExprArg(<<UseVar("n")>>)>>))>>,
                          <<Ix(61, <<ExprArg(<<UseVar("n")>>)>>)>>, <<>>, <<>>)
               ELSE FnSig(1, <<>>, <<>>, <<>>,
                          <<Nest(chain, ShortExistsTy(is_box, k))>>,
                          <<EnsuresPred(<<UseVar("n")>>)>>, <<>>)] :
        pos \in {"Input", "Output"}, chain \in SeqsUpTo({"Box", "Ref"}, 0, MaxDepth - 1),
        is_box \in BOOLEAN, k \in {"At", "Pound"}}

GatherFnSig ==
    /\ tin.op = "fn_sig" /\ tout = TPending
    /\ tout' = gather_params_fn_sig(tin.item)
    /\ UNCHANGED <<ckvars, tin>>

GatherStruct ==
    /\ tin.op = "struct" /\ tout = TPending
    /\ tout' = gather_params_struct(tin.item)
    /\ UNCHANGED <<ckvars, tin>>

GatherTypeAlias ==
    /\ tin.op = "type_alias" /\ tout = TPending
    /\ tout' = gather_params_type_alias(tin.item)
    /\ UNCHANGED <<ckvars, tin>>

GatherInit ==
    /\ CkInit(BodyDiamond, NoFault)
    /\ \/ tin \in BinderInputs
       \/ tin \in NestedInputs
       \/ tin \in GExistsInputs
       \/ tin \in DupInputs
       \/ tin \in UseInputs
       \/ tin \in ShortExistsInputs
    /\ tout = TPending

GatherNext == GatherFnSig \/ GatherStruct \/ GatherTypeAlias

GatherSpec == GatherInit /\ [][GatherNext]_vars

Gathered == tout # TPending

\* every param of an env, with the scope it is in
EnvParams(env) ==
    UNION {{[scope |-> sid, name |-> env.scopes[sid].params[i].name,
             kind |-> env.scopes[sid].params[i].param.kind] :
                i \in 1 .. Len(env.scopes[sid].params)} : sid \in DOMAIN env.scopes}

DiagCount(diags, err) == Cardinality({i \in 1 .. Len(diags) : diags[i].err = err})

----------------------------------------------------------------------------
(* Claims about parameter gathering *)

\* the binder kinds the specification allows in a position
AllowedIn(pos, bkind) ==
    \/ pos = "Input" /\ bkind = "At"
    \/ pos = "Output" /\ bkind = "Pound"

\* the indices of the drawn indexed type that are binders the position
\* does not allow
Disallowed ==
    {i \in 1 .. Len(tin.indices) :
        tin.indices[i].kind = "Bind" /\ ~AllowedIn(tin.pos, tin.indices[i].bkind)}

\* whether the binder below the base type is reached and rejected: the base
\* type is gathered only after every index was gathered without an error
InnerRejected ==
    /\ tin.inner /\ Disallowed = {} /\ DiagCount(tout.diags, "DuplicateParam") = 0
    /\ ~AllowedIn(tin.pos, InnerKind(tin.pos))

\* C14: an implicit binder in an index position is accepted only when its
\* kind is allowed by the position (@n in Input, #n in Output, none in
\* Field, Generic or Other); each disallowed binder emits one IllegalBinder,
\* is not inserted into the env, and the rest of the indexed type (its base
\* type) is not gathered; and in every gathered env each At param was
\* declared in Input position and each Pound param in Output position.
C14_BinderPositions ==
    Gathered =>
        /\ \A p \in EnvParams(tout.gathered) :
              /\ p.kind = "At" =>
                    \E i \in 1 .. Len(tout.decls) :
                        tout.decls[i] = [name |-> p.name, bkind |-> "At",
                                         pos |-> "Input", scope |-> p.scope]
              /\ p.kind = "Pound" =>
                    \E i \in 1 .. Len(tout.decls) :
                        tout.decls[i] = [name |-> p.name, bkind |-> "Pound",
                                         pos |-> "Output", scope |-> p.scope]
        /\ tin.fam = "binder" =>
              /\ DiagCount(tout.diags, "IllegalBinder") =
                    Cardinality(Disallowed) + (IF InnerRejected THEN 1 ELSE 0)
              /\ \A i \in Disallowed :
                    \E j \in 1 .. Len(tout.diags) :
                        tout.diags[j] = IllegalBinder(tin.indices[i].bkind)
              /\ \A p \in EnvParams(tout.gathered) :
                    p.name \in {"n", "m"} =>
                        \E i \in (1 .. Len(tin.indices)) \ Disallowed :
                            tin.indices[i] = Bind(p.name, p.kind)
              /\ Disallowed # {} =>
                    /\ tout.result = "err"
                    /\ \A p \in EnvParams(tout.gathered) : p.name # "p"
              /\ (Disallowed = {} /\ DiagCount(tout.diags, "DuplicateParam") = 0) =>
                    /\ tout.result = "ok" <=> ~InnerRejected
                    /\ \A i \in 1 .. Len(tin.indices) :
                          tin.indices[i].kind = "Bind" =>
                              \E p \in EnvParams(tout.gathered) :
                                  /\ p.name = tin.indices[i].ident
                                  /\ p.kind = tin.indices[i].bkind
                                  /\ p.scope = tin.scope

\* a #n in Input position next to an @m: the first is rejected and not
\* inserted, the second is inserted, the base type is not gathered
C14_Witness ==
    /\ Gathered
    /\ tin.fam = "binder" /\ tin.pos = "Input" /\ tin.inner
    /\ tin.indices = <<Bind("n", "Pound"), Bind("m", "At")>>
    /\ tout.result = "err"
    /\ tout.diags = <<IllegalBinder("Pound")>>
    /\ EnvParams(tout.gathered) = {[scope |-> ScopeId("FnInput", 1), name |-> "m", kind |-> "At"]}

\* the drawn binder n was inserted, in the scope and position of the root
BinderAccepted ==
    /\ tout.result = "ok"
    /\ \E p \in EnvParams(tout.gathered) :
          p.name = "n" /\ p.kind = tin.bkind /\ p.scope = tin.scope
    /\ tout.decls = <<[name |-> "n", bkind |-> tin.bkind, pos |-> tin.pos, scope |-> tin.scope]>>

\* the drawn binder n was rejected and not inserted
BinderRejected ==
    /\ tout.result = "err"
    /\ tout.diags = <<IllegalBinder(tin.bkind)>>
    /\ \A p \in EnvParams(tout.gathered) : p.name # "n"

EveryPathHeadBox == \A i \in 1 .. Len(tin.chain) : tin.chain[i] # "Path"

\* the type constructors below which gathering continues in position Other
ResetsPos == {"Array", "Slice", "GeneralExists"}

\* C15 as stated: an @n (resp. #n) nested inside generic arguments of an
\* Input (resp. Output) type is accepted if and only if every enclosing
\* path head between the root and the binder is Box.
C15_EveryPathHeadBox ==
    (/\ Gathered /\ tin.fam = "nested" /\ AllowedIn(tin.pos, tin.bkind)
     /\ \E i \in 1 .. Len(tin.chain) : tin.chain[i] \in {"Box", "Path"})
        => (BinderAccepted <=> EveryPathHeadBox)

\* C15, amended: gathering the generic arguments of a path keeps the
\* position if the head is Box and continues in Generic otherwise, so an @n
\* (resp. #n) below an Input (resp. Output) root is accepted if and only if
\* every enclosing path head is Box and no array, slice or GeneralExists
\* encloses it; otherwise it is rejected with IllegalBinder.
C15_BoxKeepsPosition ==
    (Gathered /\ tin.fam = "nested" /\ AllowedIn(tin.pos, tin.bkind))
        => /\ BinderAccepted <=>
                (EveryPathHeadBox /\ \A i \in 1 .. Len(tin.chain) : tin.chain[i] \notin ResetsPos)
           /\ BinderAccepted \/ BinderRejected

\* the argument Box<Box<i32[@n]>>: the binder is accepted in Input position
C15_Witness ==
    /\ Gathered /\ tin.fam = "nested" /\ tin.pos = "Input" /\ tin.bkind = "At"
    /\ tin.chain = <<"Box", "Box">>
    /\ BinderAccepted

\* the scope of the drawn GeneralExists, as gathering left it
ExistsScope == tout.gathered.scopes[ScopeId("Exists", 7)]

\* C16: gathering a GeneralExists pushes an Exists scope below the current
\* one, inserts the declared params into it, gathers the inner type in
\* position Other whatever the outer position is, and pops the scope; an
\* @n or #n anywhere inside is rejected with IllegalBinder, also when the
\* existential is in Input or Output position.
C16_GeneralExists ==
    (Gathered /\ tin.fam = "gexists") =>
        /\ ScopeId("Exists", 7) \in DOMAIN tout.gathered.scopes
        /\ ExistsScope.parent = tin.scope
        /\ Len(ExistsScope.params) = Len(tin.params)
        /\ \A i \in 1 .. Len(tin.params) :
              /\ ExistsScope.params[i].name = tin.params[i].name
              /\ ExistsScope.params[i].param = Explicit(tin.params[i].sort)
        /\ tin.bkind # "None" => BinderRejected
        /\ tin.bkind = "None" =>
              /\ tout.result = "ok"
              /\ tout.gathered.cur = ScopeId("FnInput", 1)
              /\ tout.gathered.scopes[ScopeId("FnOutput", 1)].parent = ScopeId("FnInput", 1)

\* an argument {a:int. Box<i32[@n]>}: the scope holds a, the binder is
\* rejected although the existential is in Input position
C16_Witness ==
    /\ Gathered /\ tin.fam = "gexists" /\ tin.pos = "Input" /\ tin.bkind = "At"
    /\ tin.chain = <<"Box">> /\ Len(tin.params) = 1
    /\ ExistsScope.params = <<[name |-> "a", param |-> Explicit("int"), used |-> FALSE]>>
    /\ BinderRejected

\* two arguments of the drawn signature declare the same name: every
\* argument declares its name in the FnInput scope
DupIn == \E i, j \in 1 .. Len(tin.decls) : i < j /\ tin.decls[i].name = tin.decls[j].name

\* C17: no scope of a gathered env holds two params of the same name;
\* declaring a name the current scope already holds is an error that fails
\* gathering of the item, while the same name may be declared in another
\* scope, nested or sibling.
C17_UniqueNames ==
    Gathered =>
        /\ \A sid \in DOMAIN tout.gathered.scopes :
              Cardinality(ScopeNames(tout.gathered, sid)) = Len(tout.gathered.scopes[sid].params)
        /\ tin.fam = "dups" =>
              /\ tout.result = "err" <=> (DupIn \/ tin.out = "pound_twice")
              /\ tout.result = "err" =>
                    \E nm \in {"x", "y"} : tout.diags = <<DuplicateParam(nm)>>
              /\ tout.result = "ok" =>
                    /\ \A i \in 1 .. Len(tin.decls) :
                          /\ tin.decls[i].name \in ScopeNames(tout.gathered, ScopeId("FnInput", 1))
                          /\ tin.decls[i].shape = "exists" =>
                                "x" \in ScopeNames(tout.gathered, ScopeId("Exists", 20 + i))
                    /\ tin.out = "pound" =>
                          "x" \in ScopeNames(tout.gathered, ScopeId("FnOutput", 1))
                    /\ tin.out = "exists" =>
                          "x" \in ScopeNames(tout.gathered, ScopeId("Exists", 8))

\* fn(x: i32, i32[@x]): the second declaration of x in the FnInput scope
\* fails gathering and leaves the scope with the first one only
C17_Witness ==
    /\ Gathered /\ tin.fam = "dups"
    /\ tin.decls = <<[shape |-> "colon", name |-> "x"], [shape |-> "at", name |-> "x"]>>
    /\ tout.result = "err"
    /\ tout.diags = <<DuplicateParam("x")>>
    /\ tout.gathered.scopes[ScopeId("FnInput", 1)].params =
          <<[name |-> "x", param |-> Colon, used |-> FALSE]>>

\* the same name in the FnInput scope, two sibling Exists scopes and the
\* FnOutput scope
C17_SameNameOtherScopes ==
    /\ Gathered /\ tin.fam = "dups" /\ tout.result = "ok"
    /\ tin.decls = <<[shape |-> "exists", name |-> "x"], [shape |-> "exists", name |-> "y"]>>
    /\ tin.out = "pound"
    /\ \A sid \in {ScopeId("FnInput", 1), ScopeId("Exists", 21), ScopeId("Exists", 22),
                   ScopeId("FnOutput", 1)} : "x" \in ScopeNames(tout.gathered, sid)

B2N(b) == IF b THEN 1 ELSE 0

\* the uses of x in the drawn signature that are outside the existential
\* that binds its own x: in the requires clause, in the index of the
\* return type and as the location of the ensures clause
UsesOfX ==
    Cardinality({i \in 1 .. Len(tin.requires) : tin.requires[i].name = "x"})
        + B2N(tin.retuse) + B2N(tin.ensloc)

\* every use in the drawn signature
AllUses ==
    Len(tin.requires) + B2N(tin.retuse) + B2N(tin.ensloc) + B2N(tin.shadow)
        + B2N(tin.tykind = "Exists")

\* the uses that resolve to a SyntaxError param: x: T records x as
\* SyntaxError unless T is a base type
SyntaxErrorUses == IF tin.tykind = "Base" THEN 0 ELSE UsesOfX

\* C18: a bind name recorded as SyntaxError gives no error where it is
\* declared; in the use-checking pass each use that resolves, innermost
\* scope first, to a SyntaxError param emits exactly one
\* InvalidUnrefinedParam, the traversal goes on to the remaining uses, and
\* gathering of the item fails if and only if there was such a use.
C18_InvalidUnrefinedParam ==
    (Gathered /\ tin.fam = "uses") =>
        /\ Len(tout.diags) = SyntaxErrorUses
        /\ \A i \in 1 .. Len(tout.diags) : tout.diags[i] = InvalidUnrefinedParam("x")
        /\ Len(tout.uses) = AllUses
        /\ Cardinality({i \in 1 .. Len(tout.uses) : tout.uses[i].kind = "SyntaxError"})
              = SyntaxErrorUses
        /\ tout.result = "err" <=> SyntaxErrorUses >= 1
        /\ tin.tykind # "Base" =>
              [scope |-> ScopeId("FnInput", 1), name |-> "x", kind |-> "SyntaxError"]
                  \in EnvParams(tout.gathered)

\* fn(x: &i32, {x. i32 | x}) -> i32[x] requires x && x(..) ensures x: i32:
\* four uses of the SyntaxError x give four diagnostics, the use inside the
\* existential resolves to its own x and is checked after the first error
C18_Witness ==
    /\ Gathered /\ tin.fam = "uses" /\ tin.tykind = "Ref"
    /\ tin.requires = <<UseVar("x"), UseApp("x")>> /\ tin.retuse /\ tin.ensloc /\ tin.shadow
    /\ tout.result = "err"
    /\ Len(tout.diags) = 4
    /\ Len(tout.uses) = 5
    /\ tout.uses[3] = [name |-> "x", kind |-> "Explicit"]

\* the params the specification keeps at finalization, and what it keeps
\* of each
KeptAtFinalization(p) ==
    \/ p.param.kind \in {"Explicit", "At", "Pound"}
    \/ p.param.kind = "Colon" /\ p.used

FinalParam(p) ==
    [name |-> p.name,
     sort |-> IF p.param.kind = "Explicit" THEN p.param.sort ELSE "Wildcard",
     kind |-> p.param.kind]

FinalParams(params) ==
    LET kept == SelectSeq(params, KeptAtFinalization)
    IN [i \in 1 .. Len(kept) |-> FinalParam(kept[i])]

\* C19: finalization keeps Explicit(s) with sort s and kind Explicit, At
\* and Pound with sort Wildcard and their kind, Colon with sort Wildcard
\* and kind Colon if and only if the use-checking pass marked it used, and
\* drops SyntaxError; nothing else changes. A Colon param the signature
\* never uses is not in the final env.
C19_Finalization ==
    (Gathered /\ tout.result = "ok") =>
        /\ DOMAIN tout.env.scopes = DOMAIN tout.gathered.scopes
        /\ \A sid \in DOMAIN tout.gathered.scopes :
              /\ tout.env.scopes[sid].params = FinalParams(tout.gathered.scopes[sid].params)
              /\ tout.env.scopes[sid].parent = tout.gathered.scopes[sid].parent
        /\ (tin.fam = "uses" /\ tin.tykind = "Base") =>
              (\E i \in 1 .. Len(tout.env.scopes[ScopeId("FnInput", 1)].params) :
                   tout.env.scopes[ScopeId("FnInput", 1)].params[i] =
                       [name |-> "x", sort |-> "Wildcard", kind |-> "Colon"])
                  <=> UsesOfX >= 1

\* fn(x: i32, {x. i32 | x}) requires y: x is a Colon param no use resolves
\* to, so the final FnInput scope is empty, while the x of the existential
\* is kept
C19_Witness ==
    /\ Gathered /\ tout.result = "ok"
    /\ tin.fam = "uses" /\ tin.tykind = "Base" /\ tin.shadow /\ UsesOfX = 0
    /\ tout.gathered.scopes[ScopeId("FnInput", 1)].params =
          <<[name |-> "x", param |-> Colon, used |-> FALSE]>>
    /\ tout.env.scopes[ScopeId("FnInput", 1)].params = <<>>
    /\ tout.env.scopes[ScopeId("Exists", 40)].params =
          <<[name |-> "x", sort |-> "Wildcard", kind |-> "Explicit"]>>

----------------------------------------------------------------------------
(* KVar encoding (flux-refineck fixpoint_encoding.rs) *)

MaxSelfArgs == 3
MaxScopeArgs == 2
MaxPrior == 1

Max(a, b) == IF a >= b THEN a ELSE b

\* Iterator::skip
skip(xs, k) == IF k >= Len(xs) THEN <<>> ELSE SubSeq(xs, k + 1, Len(xs))

\* rty::Sort
RtyInt == [kind |-> "Int"]
RtyReal == [kind |-> "Real"]
RtyBool == [kind |-> "Bool"]
RtyBitVec(w) == [kind |-> "BitVec", w |-> w]
RtyApp(ctor, sorts) == [kind |-> "App", ctor |-> ctor, sorts |-> sorts]
RtyParam == [kind |-> "Param"]
RtyTuple(sorts) == [kind |-> "Tuple", sorts |-> sorts]
RtyFunc(params, inputs, output) ==
    [kind |-> "Func", params |-> params, inputs |-> inputs, output |-> output]
RtyLoc == [kind |-> "Loc"]
RtySortVar == [kind |-> "Var"]

\* fixpoint::Sort (constraint.rs 22-32)
SortInt == [kind |-> "Int"]
SortBool == [kind |-> "Bool"]
SortReal == [kind |-> "Real"]
UnitSort == [kind |-> "Unit"]
SortBitVec(w) == [kind |-> "BitVec", w |-> w]
SortPair(s1, s2) == [kind |-> "Pair", fst |-> s1, snd |-> s2]
SortFunc(fsort) == [kind |-> "Func", fsort |-> fsort]
SortApp(ctor, sorts) == [kind |-> "App", ctor |-> ctor, sorts |-> sorts]

\* PolyFuncSort::new (constraint.rs 165-175): the output is pushed after the
\* inputs
PolyFuncSort(params, inputs, output) ==
    [params |-> params, inputs_and_output |-> Append(inputs, output)]

\* the outcome of bug!() and unreachable!(): the translation panics
SortBug == [kind |-> "Bug"]

\* a panic while translating a component is a panic of the whole translation
RECURSIVE AnyBug(_)
AnyBug(sorts) ==
    IF sorts = <<>> THEN FALSE
    ELSE IF Head(sorts) = SortBug THEN TRUE ELSE AnyBug(Tail(sorts))

Strict(sorts, result) == IF AnyBug(sorts) THEN SortBug ELSE result

\* a tuple nested to the right, Pair(s0, Pair(s1, ...)): what
\* sort_to_fixpoint would build if it folded from the right
RECURSIVE right_nested(_)
right_nested(fsorts) ==
    IF Len(fsorts) = 2 THEN SortPair(fsorts[1], fsorts[2])
    ELSE SortPair(Head(fsorts), right_nested(Tail(fsorts)))

\* Iterator::fold with |s1, s2| Pair(Box(s1), s2) over the translated prefix
RECURSIVE fold_pair(_, _)
fold_pair(acc, fsorts) ==
    IF fsorts = <<>> THEN acc
    ELSE fold_pair(SortPair(acc, Head(fsorts)), Tail(fsorts))

\* the Tuple arm of sort_to_fixpoint on the translated components: the last
\* two make the initial pair, and the prefix is folded onto it from the left
tuple_sort(fsorts) ==
    IF fsorts = <<>> THEN UnitSort
    ELSE IF Len(fsorts) = 1 THEN SortBug
    ELSE Strict(fsorts,
                fold_pair(SortPair(fsorts[Len(fsorts) - 1], fsorts[Len(fsorts)]),
                          SubSeq(fsorts, 1, Len(fsorts) - 2)))

\* sort_to_fixpoint and func_sort_to_fixpoint
RECURSIVE sort_to_fixpoint(_)
sorts_to_fixpoint(sorts) == [j \in 1 .. Len(sorts) |-> sort_to_fixpoint(sorts[j])]

func_sort_to_fixpoint(fsort) ==
    Strict(Append(sorts_to_fixpoint(fsort.inputs), sort_to_fixpoint(fsort.output)),
           PolyFuncSort(fsort.params, sorts_to_fixpoint(fsort.inputs),
                        sort_to_fixpoint(fsort.output)))

sort_to_fixpoint(sort) ==
    CASE sort.kind = "Int" -> SortInt
      [] sort.kind = "Real" -> SortReal
      [] sort.kind = "Bool" -> SortBool
      [] sort.kind = "BitVec" -> SortBitVec(sort.w)
      [] sort.kind = "App" /\ sort.ctor = "User" -> SortInt
      [] sort.kind = "Param" -> SortInt
      [] sort.kind = "App" /\ sort.ctor # "User" ->
            Strict(sorts_to_fixpoint(sort.sorts),
                   SortApp(sort.ctor, sorts_to_fixpoint(sort.sorts)))
      [] sort.kind = "Tuple" -> tuple_sort(sorts_to_fixpoint(sort.sorts))
      [] sort.kind = "Func" ->
            IF func_sort_to_fixpoint(sort) = SortBug THEN SortBug
            ELSE SortFunc(func_sort_to_fixpoint(sort))
      [] OTHER -> SortBug

\* rty::Expr and rty::Var, as far as the encoding tells them apart
RtyFree(name) == [kind |-> "Var", var |-> [kind |-> "Free", name |-> name]]
RtyLateBound(debruijn, idx) ==
    [kind |-> "Var", var |-> [kind |-> "LateBound", debruijn |-> debruijn, idx |-> idx]]
RtyConstant(c) == [kind |-> "Constant", c |-> c]
RtyBinaryOp(op, e1, e2) == [kind |-> "BinaryOp", op |-> op, e1 |-> e1, e2 |-> e2]
RtyTupleProj(e, field) == [kind |-> "TupleProj", e |-> e, field |-> field]
RtyExprTuple(exprs) == [kind |-> "Tuple", exprs |-> exprs]
RtyHole == [kind |-> "Hole"]
RtyKVar(kvid, args) == [kind |-> "KVar", kvid |-> kvid, args |-> args]

\* fixpoint::Var::Local and fixpoint::Expr (constraint.rs 59-70)
LocalVar(n) == [local |-> n]
ExprVar(v) == [kind |-> "Var", var |-> v]
ExprConstant(c) == [kind |-> "Constant", c |-> c]
ExprBinaryOp(op, e1, e2) == [kind |-> "BinaryOp", op |-> op, e1 |-> e1, e2 |-> e2]
ExprPair(e1, e2) == [kind |-> "Pair", e1 |-> e1, e2 |-> e2]
ExprProj(e, proj) == [kind |-> "Proj", e |-> e, proj |-> proj]
ExprUnit == [kind |-> "Unit"]

\* Expr::eq
ExprEq(e1, e2) == ExprBinaryOp("Eq", e1, e2)

\* the outcome of span_bug!(): the encoding aborts
ExprBug == [kind |-> "Bug"]

\* Env (fixpoint_encoding.rs 149-191): the generator of local names, the
\* map of the free names in scope and the layers of late bound variables
FixEnv(local_var_gen, fvars, layers) ==
    [local_var_gen |-> local_var_gen, fvars |-> fvars, layers |-> layers]

\* Env::new
FixEnvNew == FixEnv(0, <<>>, <<>>)

\* Env::fresh_name: the name taken, and the env after it
fresh_name(env) == LocalVar(env.local_var_gen)
after_fresh(env) == [env EXCEPT !.local_var_gen = @ + 1]

\* Env::insert_fvar_map
insert_fvar_map(env, name) ==
    [after_fresh(env) EXCEPT !.fvars = (name :> fresh_name(env)) @@ @]

\* with_name_map for each name of a scope, outermost first
RECURSIVE insert_fvars(_, _)
insert_fvars(env, names) ==
    IF names = <<>> THEN env
    ELSE insert_fvars(insert_fvar_map(env, Head(names)), Tail(names))

NoneVar == [local |-> -1]

\* Env::get_fvar
get_fvar(env, name) ==
    IF name \in DOMAIN env.fvars THEN env.fvars[name] ELSE NoneVar

\* Env::get_late_bvar
get_late_bvar(env, debruijn, idx) ==
    IF Len(env.layers) < debruijn + 1 THEN NoneVar
    ELSE IF idx + 1 > Len(env.layers[Len(env.layers) - debruijn]) THEN NoneVar
    ELSE env.layers[Len(env.layers) - debruijn][idx + 1]

\* ExprCtxt::var_to_fixpoint: a name with no entry is a span_bug
var_to_fixpoint(env, var) ==
    IF var.kind = "Free" THEN get_fvar(env, var.name)
    ELSE IF var.kind = "LateBound" THEN get_late_bvar(env, var.debruijn, var.idx)
    ELSE NoneVar

\* a span_bug while encoding a sub-expression aborts the whole encoding
StrictExpr(es, result) ==
    IF \E j \in 1 .. Len(es) : es[j] = ExprBug THEN ExprBug ELSE result

\* repeat_n(Snd, field).chain([Fst]).fold(e, Proj)
RECURSIVE proj_fold(_, _)
proj_fold(e, field) ==
    IF field = 0 THEN ExprProj(e, "Fst")
    ELSE proj_fold(ExprProj(e, "Snd"), field - 1)

\* ExprCtxt::expr_to_fixpoint and ExprCtxt::tuple_to_fixpoint
RECURSIVE expr_to_fixpoint(_, _)
RECURSIVE tuple_to_fixpoint(_, _)
tuple_to_fixpoint(env, exprs) ==
    IF exprs = <<>> THEN ExprUnit
    ELSE StrictExpr(<<expr_to_fixpoint(env, Head(exprs)), tuple_to_fixpoint(env, Tail(exprs))>>,
                    ExprPair(expr_to_fixpoint(env, Head(exprs)),
                             tuple_to_fixpoint(env, Tail(exprs))))

expr_to_fixpoint(env, expr) ==
    CASE expr.kind = "Var" ->
            IF var_to_fixpoint(env, expr.var) = NoneVar THEN ExprBug
            ELSE ExprVar(var_to_fixpoint(env, expr.var))
      [] expr.kind = "Constant" -> ExprConstant(expr.c)
      [] expr.kind = "BinaryOp" ->
            StrictExpr(<<expr_to_fixpoint(env, expr.e1), expr_to_fixpoint(env, expr.e2)>>,
                       ExprBinaryOp(expr.op, expr_to_fixpoint(env, expr.e1),
                                    expr_to_fixpoint(env, expr.e2)))
      [] expr.kind = "TupleProj" ->
            StrictExpr(<<expr_to_fixpoint(env, expr.e)>>,
                       proj_fold(expr_to_fixpoint(env, expr.e), expr.field))
      [] expr.kind = "Tuple" -> tuple_to_fixpoint(env, expr.exprs)
      [] OTHER -> ExprBug

\* the arguments of an rty::KVar: the self arguments a0.. and then the scope
\* b0..; an argument is a free variable or some other expression over it
KArg(s, i, is_var) ==
    [self |-> s, i |-> i, is_var |-> is_var,
     expr |-> IF is_var THEN RtyFree(<<s, i>>)
              ELSE RtyBinaryOp("Add", RtyFree(<<s, i>>), RtyConstant(1))]

KVarArgs(self_args, scope_args, first_is_var) ==
    [j \in 1 .. (self_args + scope_args) |->
        IF j <= self_args THEN KArg(TRUE, j - 1, j > 1 \/ first_is_var)
        ELSE KArg(FALSE, j - 1 - self_args, j > 1 \/ first_is_var)]

\* the sort declared for an argument: fresh_inner flattens tuples, so the
\* sorts of a declaration are never tuples
SortOf(arg) ==
    IF arg.self THEN RtyBitVec(8 * (arg.i + 1))
    ELSE IF arg.i = 0 THEN RtyInt ELSE IF arg.i = 1 THEN RtyBool ELSE RtyReal


\* KVarDecl
KVarDecl(self_args, sorts, encoding) ==
    [self_args |-> self_args, sorts |-> sorts, encoding |-> encoding]

\* FixpointKVar::new
FixpointKVar(sorts, orig) == [sorts |-> sorts, orig |-> orig]

\* the part of FixpointCtxt the encoding of kvars reads and writes: the
\* declarations, the fixpoint kvars allocated so far (the index of an entry,
\* from 0, is its fixpoint::KVid), the kvid map, and the env, in which
\* with_name_map has mapped the names in scope
FixpointCtxt(kvars, prior, names) ==
    [kvars |-> kvars,
     fixpoint_kvars |-> [j \in 1 .. prior |-> FixpointKVar(<<UnitSort>>, 100 + j)],
     kvid_map |-> <<>>,
     env |-> insert_fvars(FixEnvNew, names)]

\* fixpoint::Pred (constraint.rs 52-57)
PredAnd(preds) == [kind |-> "And", preds |-> preds]
PredKVar(kvid, args) == [kind |-> "KVar", kvid |-> kvid, args |-> args]
PredExpr(e) == [kind |-> "Expr", e |-> e]
PredBug == [kind |-> "Bug", preds |-> <<>>]

\* fixpoint::Constraint (constraint.rs 15-20)
ConstraintPred(p, tag) == [kind |-> "Pred", p |-> p, tag |-> tag]
ConstraintConj(cs) == [kind |-> "Conj", cs |-> cs]
ConstraintGuard(p, c) == [kind |-> "Guard", p |-> p, c |-> c]
ConstraintForAll(v, sort, p, c) ==
    [kind |-> "ForAll", v |-> v, sort |-> sort, p |-> p, c |-> c]

\* the sorts of the fixpoint kvars allocated for a Conj kvar, in the order
\* they are pushed
conj_sorts(all_args, n) == [j \in 1 .. n |-> skip(all_args, n - (j - 1) - 1)]

\* the sorts of the fixpoint kvars populate_kvid_map allocates for decl
allocated_sorts(decl) ==
    LET all_args == [j \in 1 .. Len(decl.sorts) |-> sort_to_fixpoint(decl.sorts[j])]
    IN IF all_args = <<>> THEN <<<<UnitSort>>>>
       ELSE IF decl.encoding = "Single" THEN <<all_args>>
       ELSE conj_sorts(all_args, Max(decl.self_args, 1))

\* FixpointCtxt::populate_kvid_map
populate_kvid_map_always(cx, kvid) ==
    [cx EXCEPT
        !.fixpoint_kvars = @ \o [j \in 1 .. Len(allocated_sorts(cx.kvars[kvid])) |->
                                    FixpointKVar(allocated_sorts(cx.kvars[kvid])[j], kvid)],
        !.kvid_map = (kvid :> [j \in 1 .. Len(allocated_sorts(cx.kvars[kvid])) |->
                                  Len(cx.fixpoint_kvars) + j - 1]) @@ @]
populate_kvid_map(cx, kvid) ==
    IF kvid \in DOMAIN cx.kvid_map THEN cx
    ELSE LET new == allocated_sorts(cx.kvars[kvid])
             base == Len(cx.fixpoint_kvars)
         IN [cx EXCEPT
                !.fixpoint_kvars = @ \o [j \in 1 .. Len(new) |-> FixpointKVar(new[j], kvid)],
                !.kvid_map = @ @@ (kvid :> [j \in 1 .. Len(new) |-> base + j - 1])]

\* an entry of Bindings
Binding(name, sort, pred) == [name |-> name, sort |-> sort, pred |-> pred]

\* the state the encoding of a kvar threads through its arguments: the
\* context, the Bindings, the local names collected, and whether a span_bug
\* was hit
Anf(cx, bindings, locals, bug) ==
    [cx |-> cx, bindings |-> bindings, locals |-> locals, bug |-> bug]

\* the arm of imm for an argument that is not a variable: a fresh name,
\* bound to the encoded argument
imm_fresh(st, arg, sort) ==
    Anf([st.cx EXCEPT !.env = after_fresh(@)],
        Append(st.bindings,
               Binding(fresh_name(st.cx.env), sort_to_fixpoint(sort),
                       ExprEq(ExprVar(fresh_name(st.cx.env)),
                              expr_to_fixpoint(st.cx.env, arg)))),
        Append(st.locals, fresh_name(st.cx.env)),
        st.bug \/ expr_to_fixpoint(st.cx.env, arg) = ExprBug)

\* FixpointCtxt::imm
imm(st, arg, sort) ==
    IF arg.kind = "Var" /\ arg.var.kind = "Free"
    THEN [st EXCEPT !.locals = Append(@, get_fvar(st.cx.env, arg.var.name)),
                    !.bug = @ \/ get_fvar(st.cx.env, arg.var.name) = NoneVar]
    ELSE IF arg.kind = "Var" THEN [st EXCEPT !.bug = TRUE]
    ELSE imm_fresh(st, arg, sort)

\* iter::zip(&kvar.args, &decl.sorts).map(imm): the arguments in order
RECURSIVE imm_args(_, _, _)
imm_args(st, args, sorts) ==
    IF args = <<>> \/ sorts = <<>> \/ st.bug THEN st
    ELSE imm_args(imm(st, Head(args), Head(sorts)), Tail(args), Tail(sorts))

\* the arguments of the sub-kvars of the conjunction, in the order emitted
conj_args(all_args, n) == [j \in 1 .. n |-> skip(all_args, n - (j - 1) - 1)]

\* what kvar_to_fixpoint leaves: the context, the Bindings and the predicate
\* returned
Encoding(cx, bindings, pred, bug) ==
    [cx |-> cx, bindings |-> bindings, pred |-> pred, bug |-> bug, calls |-> 1]

\* the arm of kvar_to_fixpoint for a kvar without arguments
unit_kvar(st, kvids) ==
    Encoding([st.cx EXCEPT !.env = after_fresh(@)],
             Append(st.bindings,
                    Binding(fresh_name(st.cx.env), UnitSort,
                            ExprEq(ExprVar(fresh_name(st.cx.env)), ExprUnit))),
             PredKVar(kvids[1], <<fresh_name(st.cx.env)>>),
             FALSE)

\* the arm for a kvar with arguments: the conjunction of its sub-kvars
and_kvars(st, kvids) ==
    Encoding(st.cx, st.bindings,
             PredAnd([j \in 1 .. Len(kvids) |->
                         PredKVar(kvids[j], conj_args(st.locals, Len(kvids))[j])]),
             FALSE)

kvar_encoded(st, kvids) ==
    IF st.bug THEN Encoding(st.cx, st.bindings, PredBug, TRUE)
    ELSE IF st.locals = <<>> THEN unit_kvar(st, kvids)
    ELSE and_kvars(st, kvids)

kvar_args(cx, kvar, bindings) ==
    imm_args(Anf(cx, bindings, <<>>, FALSE),
             [j \in 1 .. Len(kvar.args) |-> kvar.args[j].expr], cx.kvars[kvar.kvid].sorts)

\* FixpointCtxt::kvar_to_fixpoint
kvar_to_fixpoint(cx0, kvar, bindings) ==
    kvar_encoded(kvar_args(populate_kvid_map(cx0, kvar.kvid), kvar, bindings),
                 populate_kvid_map(cx0, kvar.kvid).kvid_map[kvar.kvid])

\* the state pred_to_fixpoint threads: the context, the Bindings, the
\* conjuncts pushed so far, and whether a span_bug was hit
PredSpans(cx, bindings, preds, bug) ==
    [cx |-> cx, bindings |-> bindings, preds |-> preds, bug |-> bug]

\* preds.push of an encoded kvar
push_kvar(st, enc) ==
    PredSpans(enc.cx, enc.bindings, Append(st.preds, enc.pred), st.bug \/ enc.bug)

\* preds.push of any other predicate
push_expr(st, e) ==
    PredSpans(st.cx, st.bindings, Append(st.preds, PredExpr(e)), st.bug \/ e = ExprBug)

\* FixpointCtxt::pred_to_fixpoint_internal
RECURSIVE pred_to_fixpoint_internal(_, _)
pred_to_fixpoint_internal(st, expr) ==
    IF st.bug THEN st
    ELSE IF expr.kind = "BinaryOp" /\ expr.op = "And"
    THEN pred_to_fixpoint_internal(pred_to_fixpoint_internal(st, expr.e1), expr.e2)
    ELSE IF expr.kind = "KVar"
    THEN push_kvar(st, kvar_to_fixpoint(st.cx, expr, st.bindings))
    ELSE push_expr(st, expr_to_fixpoint(st.cx.env, expr))

\* FixpointCtxt::pred_to_fixpoint
pred_to_fixpoint(cx, pred) ==
    pred_to_fixpoint_internal(PredSpans(cx, <<>>, <<>>, FALSE), pred)

\* stitch without the reversal: the first binding wrapped first, innermost
RECURSIVE stitch_forward(_, _)
stitch_forward(bindings, c) ==
    IF bindings = <<>> THEN c
    ELSE stitch_forward(Tail(bindings),
                        ConstraintForAll(Head(bindings).name, Head(bindings).sort,
                                         PredExpr(Head(bindings).pred), c))

\* stitch: bindings.into_iter().rev().fold(c, ForAll), the last binding
\* wrapped first
RECURSIVE stitch(_, _)
stitch(bindings, c) ==
    IF bindings = <<>> THEN c
    ELSE stitch(SubSeq(bindings, 1, Len(bindings) - 1),
                ConstraintForAll(bindings[Len(bindings)].name, bindings[Len(bindings)].sort,
                                 PredExpr(bindings[Len(bindings)].pred), c))

\* the free names of a scope: one per argument
NamesOf(args) == [j \in 1 .. Len(args) |-> <<args[j].self, args[j].i>>]

\* the kvars drawn: kvid 0, declared with its self arguments, scope and
\* encoding, in a context that already holds MaxPrior or fewer fixpoint kvars
KVarInputs ==
    {[op |-> "kvar", encoding |-> e, self_args |-> n, scope |-> m, prior |-> pr,
      kvar |-> [kvid |-> 0, args |-> KVarArgs(n, m, fv)],
      cx |-> FixpointCtxt(
                 (0 :> KVarDecl(n, [j \in 1 .. (n + m) |-> SortOf(KVarArgs(n, m, fv)[j])], e)),
                 pr, NamesOf(KVarArgs(n, m, fv)))] :
        e \in {"Single", "Conj"}, n \in 0 .. MaxSelfArgs, m \in 0 .. MaxScopeArgs,
        pr \in 0 .. MaxPrior, fv \in BOOLEAN}

\* the first occurrence of the kvar is encoded
KVarToFixpoint ==
    /\ tin.op = "kvar" /\ tout = TPending
    /\ tout' = kvar_to_fixpoint(tin.cx, tin.kvar, <<>>)
    /\ UNCHANGED <<ckvars, tin>>

\* a later occurrence of the same kvar is encoded in the context the first
\* one left
KVarToFixpointAgain ==
    /\ tin.op = "kvar" /\ tout # TPending /\ tout.calls = 1
    /\ tout' = [kvar_to_fixpoint(tout.cx, tin.kvar, <<>>) EXCEPT !.calls = 2]
    /\ UNCHANGED <<ckvars, tin>>

KVarInit ==
    /\ CkInit(BodyDiamond, NoFault)
    /\ tin \in KVarInputs
    /\ tout = TPending

KVarNext == KVarToFixpoint \/ KVarToFixpointAgain

KVarSpec == KVarInit /\ [][KVarNext]_vars

Encoded == tout # TPending

\* the full argument list as the encoding names it
EncodedArgs == kvar_args(tin.cx, tin.kvar, <<>>).locals

\* C20: under Conj a kvar with n >= 1 self arguments is a conjunction of n
\* fixpoint kvars of which the i-th, in the order they are allocated and
\* emitted, takes the tail of the full argument list from position i
\* inclusive; under Single it is one kvar applied to all arguments in order.
C20_ConjTails ==
    (/\ Encoded /\ tout.calls = 1
     /\ \/ tin.encoding = "Conj" /\ tin.self_args >= 1
        \/ tin.encoding = "Single" /\ Len(tin.kvar.args) >= 1) =>
        LET n == IF tin.encoding = "Conj" THEN tin.self_args ELSE 1
        IN /\ Len(tout.pred.preds) = n
           /\ \A i \in 0 .. (n - 1) :
                 /\ tout.pred.preds[i + 1].kvid = tin.prior + i
                 /\ tout.pred.preds[i + 1].args = skip(EncodedArgs, i)
                 /\ Len(tout.cx.fixpoint_kvars[tin.prior + i + 1].sorts)
                       = Len(EncodedArgs) - i

----------------------------------------------------------------------------
(* Sorts: sort_to_fixpoint on its own *)

MaxTuple == 3

\* the component sorts drawn, each with a distinct translation
SortAtoms == {RtyInt, RtyReal, RtyBool, RtyBitVec(8)}

\* tuples of atoms, tuples with a tuple component, the sorts translated to
\* Int, sort constructors, function sorts, and the sorts that are a bug
SortInputs ==
    {[op |-> "sort", sort |-> s] :
        s \in SortAtoms
            \cup {RtyParam, RtyApp("User", <<>>), RtyLoc, RtySortVar}
            \cup {RtyTuple(ss) : ss \in SeqsUpTo(SortAtoms, 0, MaxTuple)}
            \cup {RtyTuple(<<a, RtyTuple(<<b, RtyInt>>)>>) : a, b \in SortAtoms}
            \cup {RtyTuple(<<RtyTuple(<<a, RtyBool, b>>), RtyReal>>) : a, b \in SortAtoms}
            \cup {RtyApp(c, <<a>>) : c \in {"Set", "Map"}, a \in SortAtoms \cup {RtyLoc}}
            \cup {RtyFunc(0, <<a>>, b) : a, b \in SortAtoms}
            \cup {RtyTuple(<<a, RtyLoc>>) : a \in SortAtoms}}

SortToFixpoint ==
    /\ tin.op = "sort" /\ tout = TPending
    /\ tout' = [sort |-> sort_to_fixpoint(tin.sort)]
    /\ UNCHANGED <<ckvars, tin>>

SortInit ==
    /\ CkInit(BodyDiamond, NoFault)
    /\ tin \in SortInputs
    /\ tout = TPending

SortNext == SortToFixpoint

SortSpec == SortInit /\ [][SortNext]_vars

\* a tuple of atoms, translated
AtomTuple ==
    /\ tout # TPending /\ tin.sort.kind = "Tuple"
    /\ \A j \in 1 .. Len(tin.sort.sorts) : tin.sort.sorts[j] \in SortAtoms

\* C22: the empty tuple sort is encoded as Unit, and a tuple sort of n >= 2
\* components as the right-nested pair Pair(s0, Pair(s1, ...)) of the encoded
\* components in their original order, for every n.
C22_TupleRightNested ==
    AtomTuple =>
        /\ Len(tin.sort.sorts) = 0 => tout.sort = UnitSort
        /\ Len(tin.sort.sorts) >= 2 =>
              tout.sort = right_nested(sorts_to_fixpoint(tin.sort.sorts))

\* what the code builds for three components: the last two paired first,
\* the first one last
C22_ThreeTuple ==
    /\ tin.op = "sort" /\ tin.sort = RtyTuple(<<RtyInt, RtyBool, RtyReal>>)
    /\ tout # TPending
    /\ tout.sort = SortPair(SortPair(SortBool, SortReal), SortInt)

----------------------------------------------------------------------------
(* ANF of kvar arguments: pred_to_fixpoint, imm and stitch *)

MaxAnfArgs == 3

\* the arguments drawn: a free variable in scope, two expressions that are
\* not variables, a late bound variable and an expression with a hole
AnfShapes == {"free", "binop", "proj", "bound", "hole"}

ShapeExpr(shape, name) ==
    CASE shape = "free" -> RtyFree(name)
      [] shape = "binop" -> RtyBinaryOp("Add", RtyFree(name), RtyConstant(1))
      [] shape = "proj" -> RtyTupleProj(RtyFree(name), 1)
      [] shape = "bound" -> RtyLateBound(0, 0)
      [] shape = "hole" -> RtyBinaryOp("Add", RtyHole, RtyConstant(1))

ShapeArgs(shapes) ==
    [j \in 1 .. Len(shapes) |->
        [self |-> FALSE, i |-> j - 1, is_var |-> shapes[j] \in {"free", "bound"},
         expr |-> ShapeExpr(shapes[j], <<FALSE, j - 1>>)]]

\* the predicate encoded: one occurrence of the kvar, or two in a conjunction
AnfPred(shapes, twice) ==
    IF twice THEN RtyBinaryOp("And", RtyKVar(0, ShapeArgs(shapes)), RtyKVar(0, ShapeArgs(shapes)))
    ELSE RtyKVar(0, ShapeArgs(shapes))

\* the constraints stitch wraps
InnerConstraints ==
    {ConstraintPred(PredExpr(ExprConstant(FALSE)), 0), ConstraintConj(<<>>)}

AnfInputs ==
    {[op |-> "anf", shapes |-> sh, twice |-> tw, pred |-> AnfPred(sh, tw), c |-> c,
      cx |-> FixpointCtxt(
                 (0 :> KVarDecl(0, [j \in 1 .. Len(sh) |-> SortOf(ShapeArgs(sh)[j])], "Single")),
                 0, NamesOf(ShapeArgs(sh)))] :
        sh \in SeqsUpTo(AnfShapes, 0, MaxAnfArgs), tw \in BOOLEAN, c \in InnerConstraints}

\* the predicate is encoded into conjuncts and Bindings
AnfPredToFixpoint ==
    /\ tin.op = "anf" /\ tout = TPending
    /\ tout' = [stage |-> "encoded", enc |-> pred_to_fixpoint(tin.cx, tin.pred),
                constraint |-> tin.c]
    /\ UNCHANGED <<ckvars, tin>>

\* the Bindings are wrapped around the inner constraint; an encoding that hit
\* a span_bug has aborted and stitches nothing
AnfStitch ==
    /\ tin.op = "anf" /\ tout # TPending /\ tout.stage = "encoded" /\ ~tout.enc.bug
    /\ tout' = [tout EXCEPT !.stage = "stitched",
                            !.constraint = stitch(tout.enc.bindings, tin.c)]
    /\ UNCHANGED <<ckvars, tin>>

AnfInit ==
    /\ CkInit(BodyDiamond, NoFault)
    /\ tin \in AnfInputs
    /\ tout = TPending

AnfNext == AnfPredToFixpoint \/ AnfStitch

AnfSpec == AnfInit /\ [][AnfNext]_vars

\* the local name with_name_map gave the j-th name in scope
MappedLocal(j) == LocalVar(j - 1)

\* the j-th argument as a fixpoint expression, written out by hand
EncodedArg(j) ==
    IF tin.shapes[j] = "binop"
    THEN ExprBinaryOp("Add", ExprVar(MappedLocal(j)), ExprConstant(1))
    ELSE ExprProj(ExprProj(ExprVar(MappedLocal(j)), "Snd"), "Fst")

\* the sort declared for the j-th argument, translated by hand
EncodedSort(j) == IF j = 1 THEN SortInt ELSE IF j = 2 THEN SortBool ELSE SortReal

\* the Bindings whose name is v
BindingsOf(v) == {k \in 1 .. Len(tout.enc.bindings) : tout.enc.bindings[k].name = v}

\* one quantifier per binding, the first outermost, written from the front
RECURSIVE Wrapped(_, _)
Wrapped(bindings, c) ==
    IF bindings = <<>> THEN c
    ELSE ConstraintForAll(Head(bindings).name, Head(bindings).sort,
                          PredExpr(Head(bindings).pred), Wrapped(Tail(bindings), c))

\* one occurrence of a kvar with arguments was encoded without a span_bug
AnfEncodedOnce ==
    /\ tin.op = "anf" /\ tout # TPending /\ ~tin.twice /\ ~tout.enc.bug
    /\ Len(tin.shapes) >= 1

----------------------------------------------------------------------------
(* FixpointCtxt::check and FixpointCtxt::tag_idx *)

MaxTags == 2
MaxTagCalls == 3
MaxErrors == 3

\* Pred::is_trivially_true
never_trivially_true(p) == FALSE

pred_is_trivially_true(p) ==
    CASE p = PredExpr(ExprConstant(TRUE)) -> TRUE
      [] p.kind = "And" -> p.preds = <<>>
      [] OTHER -> FALSE

\* Pred::is_concrete
RECURSIVE pred_is_concrete(_)
pred_is_concrete(p) ==
    CASE p.kind = "And" -> \E j \in 1 .. Len(p.preds) : pred_is_concrete(p.preds[j])
      [] p.kind = "KVar" -> FALSE
      [] p.kind = "Expr" -> TRUE

\* Constraint::is_concrete
RECURSIVE constraint_is_concrete(_)
constraint_is_concrete(c) ==
    CASE c.kind = "Conj" -> \E j \in 1 .. Len(c.cs) : constraint_is_concrete(c.cs[j])
      [] c.kind \in {"Guard", "ForAll"} -> constraint_is_concrete(c.c)
      [] c.kind = "Pred" -> pred_is_concrete(c.p) /\ ~pred_is_trivially_true(c.p)

\* the tags of a FixpointCtxt: tags (the index of an entry, from 0, is its
\* TagIdx), tags_inv and the comments
TagCtxt(tags, tags_inv, comments) ==
    [tags |-> tags, tags_inv |-> tags_inv, comments |-> comments]

\* FixpointCtxt::new
TagCtxtNew == TagCtxt(<<>>, <<>>, <<>>)

\* tag_idx without the lookup in tags_inv: every call pushes
tag_idx_push(cx, tag) ==
    [cx |-> TagCtxt(Append(cx.tags, tag), (tag :> Len(cx.tags)) @@ cx.tags_inv,
                    Append(cx.comments, <<Len(cx.tags), tag>>)),
     idx |-> Len(cx.tags)]

\* FixpointCtxt::tag_idx: the context after the call and the index returned
tag_idx(cx, tag) ==
    IF tag \in DOMAIN cx.tags_inv THEN [cx |-> cx, idx |-> cx.tags_inv[tag]]
    ELSE tag_idx_push(cx, tag)

\* Itertools::unique: the first occurrence of each element, in order
RECURSIVE unique(_)
unique(xs) ==
    IF xs = <<>> THEN <<>>
    ELSE <<Head(xs)>> \o unique(SelectSeq(Tail(xs), LAMBDA y : y # Head(xs)))

\* FixpointResult and the Err of check_with_cache
Safe == [kind |-> "Safe"]
Unsafe(errors) == [kind |-> "Unsafe", errors |-> errors]
Crash == [kind |-> "Crash"]
RunFailed == [kind |-> "Err"]
NotRun == [kind |-> "NotRun"]

\* what check leaves: Ok(tags) or a span_bug, and whether
\* task.check_with_cache was called
Checked(kind, tags, invoked, outcome) ==
    [stage |-> "checked", kind |-> kind, tags |-> tags, invoked |-> invoked,
     outcome |-> outcome]

\* the match on the result of task.check_with_cache
check_outcome(cx, outcome) ==
    CASE outcome.kind = "Safe" -> Checked("Ok", <<>>, TRUE, outcome)
      [] outcome.kind = "Unsafe" ->
            Checked("Ok",
                    unique([j \in 1 .. Len(outcome.errors) |-> cx.tags[outcome.errors[j] + 1]]),
                    TRUE, outcome)
      [] OTHER -> Checked("Bug", <<>>, TRUE, outcome)

\* FixpointCtxt::check
check(cx, constraint, outcome) ==
    IF ~constraint_is_concrete(constraint) THEN Checked("Ok", <<>>, FALSE, NotRun)
    ELSE check_outcome(cx, outcome)

\* what the solver can answer: the errors of Unsafe carry tags of the
\* constraint, which tag_idx registered
Outcomes(cx) ==
    {Safe, Crash, RunFailed}
        \cup {Unsafe(es) : es \in SeqsUpTo(0 .. (Len(cx.tags) - 1), 1, MaxErrors)}

\* atoms of the constraints drawn: the constants, two variables, a kvar
AtomTrue == PredExpr(ExprConstant(TRUE))
AtomFalse == PredExpr(ExprConstant(FALSE))
AtomX == PredExpr(ExprVar(LocalVar(0)))
AtomY == PredExpr(ExprVar(LocalVar(1)))
AtomK == PredKVar(0, <<LocalVar(0)>>)

CheckInputs ==
    {[op |-> "check", constraint |-> c] :
        c \in {ConstraintPred(AtomX, 0),
               ConstraintConj(<<ConstraintPred(AtomK, 0), ConstraintPred(AtomY, 1)>>),
               ConstraintGuard(AtomK, ConstraintPred(PredAnd(<<AtomK, AtomFalse>>), 0)),
               ConstraintForAll(LocalVar(0), SortBool, AtomK, ConstraintPred(AtomK, 0))}}

\* FixpointCtxt::new
CheckNew ==
    /\ tin.op = "check" /\ tout = TPending
    /\ tout' = [stage |-> "ctxt", cx |-> TagCtxtNew, calls |-> 0,
                last |-> [tag |-> 0, idx |-> -1, before |-> TagCtxtNew]]
    /\ UNCHANGED <<ckvars, tin>>

\* a tag is interned while the constraint is built
TagIdx ==
    /\ tin.op = "check" /\ tout # TPending /\ tout.stage = "ctxt"
    /\ tout.calls < MaxTagCalls
    /\ \E tag \in 1 .. MaxTags :
          tout' = [stage |-> "ctxt", cx |-> tag_idx(tout.cx, tag).cx, calls |-> tout.calls + 1,
                   last |-> [tag |-> tag, idx |-> tag_idx(tout.cx, tag).idx,
                             before |-> tout.cx]]
    /\ UNCHANGED <<ckvars, tin>>

\* the constraint is checked and the solver answers
Check ==
    /\ tin.op = "check" /\ tout # TPending /\ tout.stage = "ctxt"
    /\ \E outcome \in Outcomes(tout.cx) :
          tout' = check(tout.cx, tin.constraint, outcome) @@ [cx |-> tout.cx]
    /\ UNCHANGED <<ckvars, tin>>

CheckInit ==
    /\ CkInit(BodyDiamond, NoFault)
    /\ tin \in CheckInputs
    /\ tout = TPending

CheckNext == CheckNew \/ TagIdx \/ Check

CheckSpec == CheckInit /\ [][CheckNext]_vars

\* the position of the first occurrence of x in xs, 0 if there is none
FirstAt(xs, x) ==
    IF \E j \in 1 .. Len(xs) : xs[j] = x
    THEN CHOOSE j \in 1 .. Len(xs) : xs[j] = x /\ \A k \in 1 .. (j - 1) : xs[k] # x
    ELSE 0

NoDuplicates(xs) == \A j, k \in 1 .. Len(xs) : xs[j] = xs[k] => j = k

\* the tags the errors of an Unsafe answer stand for, error by error
ErrorTags == [j \in 1 .. Len(tout.outcome.errors) |-> tout.cx.tags[tout.outcome.errors[j] + 1]]

\* C23: Safe yields no tags; Unsafe(errors) yields the tags registered for
\* the errors' indices, each distinct tag once, in order of first occurrence;
\* Crash and a failure to run the solver yield no tag list but abort as an
\* internal bug; tag_idx interns: equal tags share one index and
\* tags[tag_idx(t)] = t.
C23_CheckOutcome ==
    (tin.op = "check" /\ tout # TPending) =>
        /\ NoDuplicates(tout.cx.tags)
        /\ (tout.stage = "ctxt" /\ tout.calls >= 1) =>
              /\ tout.cx.tags[tout.last.idx + 1] = tout.last.tag
              /\ \A j \in 1 .. Len(tout.last.before.tags) :
                    /\ tout.cx.tags[j] = tout.last.before.tags[j]
                    /\ tout.last.before.tags[j] = tout.last.tag => tout.last.idx = j - 1
        /\ (tout.stage = "checked" /\ tout.invoked) =>
              /\ tout.outcome.kind = "Safe" => tout.kind = "Ok" /\ tout.tags = <<>>
              /\ tout.outcome.kind \in {"Crash", "Err"} => tout.kind = "Bug"
              /\ tout.outcome.kind = "Unsafe" =>
                    /\ tout.kind = "Ok"
                    /\ NoDuplicates(tout.tags)
                    /\ {tout.tags[j] : j \in 1 .. Len(tout.tags)}
                          = {ErrorTags[j] : j \in 1 .. Len(ErrorTags)}
                    /\ \A j, k \in 1 .. Len(tout.tags) :
                          j < k => FirstAt(ErrorTags, tout.tags[j]) < FirstAt(ErrorTags, tout.tags[k])

\* tags 2 and 1 were interned in that order, and the errors name 1, 2, 1
C23_Witness ==
    /\ tin.op = "check" /\ tout # TPending /\ tout.stage = "checked"
    /\ tout.cx.tags = <<2, 1>>
    /\ tout.outcome = Unsafe(<<1, 0, 1>>)
    /\ tout.tags = <<1, 2>>

----------------------------------------------------------------------------
(* Constraint::is_concrete and the constraints check skips *)

MaxConj == 2

\* the head predicates drawn
HeadPreds ==
    {AtomTrue, AtomFalse, AtomX, AtomK, PredAnd(<<>>), PredAnd(<<AtomK, AtomK>>),
     PredAnd(<<AtomK, AtomY>>), PredAnd(<<AtomTrue>>), PredAnd(<<PredAnd(<<>>)>>),
     PredAnd(<<AtomK, PredAnd(<<AtomK, AtomFalse>>)>>)}

Leaves == {ConstraintPred(p, 0) : p \in HeadPreds}

ConjLeaves == {ConstraintPred(p, 0) : p \in {AtomTrue, AtomX, AtomK, PredAnd(<<>>)}}

GuardPreds == {AtomX, AtomK, AtomFalse}

Nested ==
    Leaves
        \cup {ConstraintConj(cs) : cs \in SeqsUpTo(ConjLeaves, 0, MaxConj)}
        \cup {ConstraintGuard(g, l) : g \in GuardPreds, l \in Leaves}
        \cup {ConstraintForAll(LocalVar(0), SortBool, g, l) : g \in GuardPreds, l \in Leaves}
        \cup {ConstraintConj(<<ConstraintGuard(AtomX, l1),
                               ConstraintForAll(LocalVar(1), SortBool, AtomK, l2)>>) :
                 l1, l2 \in ConjLeaves}
        \cup {ConstraintForAll(LocalVar(0), SortBool, AtomK,
                               ConstraintGuard(AtomY, ConstraintConj(<<l1, l2>>))) :
                 l1, l2 \in ConjLeaves}

ConcreteInputs ==
    {[op |-> "concrete", constraint |-> c, cx |-> tag_idx(TagCtxtNew, 1).cx] : c \in Nested}

\* the constraint is checked; the solver, if it is asked, answers
CheckConstraint ==
    /\ tin.op = "concrete" /\ tout = TPending
    /\ \E outcome \in {Safe, Unsafe(<<0>>), Crash} :
          tout' = check(tin.cx, tin.constraint, outcome)
                     @@ [concrete |-> constraint_is_concrete(tin.constraint)]
    /\ UNCHANGED <<ckvars, tin>>

ConcreteInit ==
    /\ CkInit(BodyDiamond, NoFault)
    /\ tin \in ConcreteInputs
    /\ tout = TPending

ConcreteNext == CheckConstraint

ConcreteSpec == ConcreteInit /\ [][ConcreteNext]_vars

\* the head predicates of a constraint
RECURSIVE Heads(_)
Heads(c) ==
    CASE c.kind = "Pred" -> {c.p}
      [] c.kind = "Conj" -> UNION {Heads(c.cs[j]) : j \in 1 .. Len(c.cs)}
      [] OTHER -> Heads(c.c)

\* a predicate with an expression somewhere in it
RECURSIVE HasExpr(_)
HasExpr(p) ==
    \/ p.kind = "Expr"
    \/ p.kind = "And" /\ \E j \in 1 .. Len(p.preds) : HasExpr(p.preds[j])

\* a concrete head: it has an expression and is neither the literal true nor
\* the empty conjunction
ConcreteHead(p) == HasExpr(p) /\ p # AtomTrue /\ p # PredAnd(<<>>)

\* the truth of a predicate when every kvar is assigned true
RECURSIVE EvalPred(_, _)
EvalPred(p, val) ==
    CASE p.kind = "KVar" -> TRUE
      [] p.kind = "And" -> \A j \in 1 .. Len(p.preds) : EvalPred(p.preds[j], val)
      [] p.kind = "Expr" /\ p.e.kind = "Constant" -> p.e.c
      [] p.kind = "Expr" /\ p.e.kind = "Var" -> val[p.e.var.local]

\* the truth of a constraint under that assignment
RECURSIVE Holds(_, _)
Holds(c, val) ==
    CASE c.kind = "Pred" -> EvalPred(c.p, val)
      [] c.kind = "Conj" -> \A j \in 1 .. Len(c.cs) : Holds(c.cs[j], val)
      [] c.kind = "Guard" -> EvalPred(c.p, val) => Holds(c.c, val)
      [] c.kind = "ForAll" ->
            \A b \in BOOLEAN :
                EvalPred(c.p, [val EXCEPT ![c.v.local] = b])
                    => Holds(c.c, [val EXCEPT ![c.v.local] = b])

\* assigning every kvar to true validates the constraint
ValidWithKVarsTrue(c) == \A val \in [{0, 1} -> BOOLEAN] : Holds(c, val)

ConstraintChecked == tin.op = "concrete" /\ tout # TPending

\* C24: is_concrete is true exactly when the constraint has a concrete head
\* predicate; when it is false the constraint is valid with every kvar
\* assigned true, and check returns an empty tag list without calling the
\* solver or the cache.
C24_IsConcrete ==
    ConstraintChecked =>
        /\ tout.concrete <=> \E p \in Heads(tin.constraint) : ConcreteHead(p)
        /\ ~tout.concrete =>
              /\ ValidWithKVarsTrue(tin.constraint)
              /\ tout.kind = "Ok" /\ tout.tags = <<>> /\ ~tout.invoked
        /\ tout.concrete => tout.invoked

\* a constraint whose heads are a kvar and the literal true, under a guard
\* that is an expression, was skipped
C24_Witness ==
    /\ ConstraintChecked
    /\ tin.constraint =
          ConstraintConj(<<ConstraintGuard(AtomX, ConstraintPred(AtomK, 0)),
                           ConstraintForAll(LocalVar(1), SortBool, AtomK,
                                            ConstraintPred(AtomTrue, 0))>>)
    /\ ~tout.concrete /\ ~tout.invoked /\ tout.tags = <<>>

----------------------------------------------------------------------------
(* Properties of check_goto *)

\* the number of edges from p to bb
EdgesTo(b, p, bb) ==
    Cardinality({i \in 1 .. Len(successors(b.term[p])) : successors(b.term[p])[i] = bb})

\* how often the edges into bb were taken: every check of a block that passes
\* takes each of its edges once
RECURSIVE TakenInto(_, _, _)
TakenInto(b, ps, bb) ==
    IF ps = {} THEN 0
    ELSE LET p == CHOOSE x \in ps : TRUE
         IN checks[p] * EdgesTo(b, p, bb) + TakenInto(b, ps \ {p}, bb)

\* the exit blocks that are the target of an edge
ExitTargets ==
    {bb \in Blocks(body) :
        is_exit_block(body, bb) /\ \E p \in Blocks(body) : EdgesTo(body, p, bb) > 0}

\* C27: the queue only ever holds join points that are not exit blocks; an
\* exit block that is a target is never scheduled, visited or given a stored
\* env, and its return check runs once per edge taken into it, in the
\* predecessor's context; any other target that is not a join point is
\* checked at once by recursion from its predecessor and never queued.
C27_QueueJoinPoints ==
    /\ \A bb \in queue \cup (IF cur = NoBlock THEN {} ELSE {cur}) :
          is_join_point(body, bb) /\ ~is_exit_block(body, bb)
    /\ \A bb \in ExitTargets :
          /\ bb \notin visited /\ bb \notin queue /\ cur # bb
          /\ ~bb_envs[bb].some /\ checks[bb] = 0 /\ snapshots[bb] = NoNode
          /\ \A i \in 1 .. Len(stack) : stack[i].bb # bb
    /\ \A bb \in Blocks(body) : bb \notin ExitTargets => rets[bb] = 0
    /\ (status = "ok" \/ (status = "running" /\ stack = <<>>)) =>
          \A bb \in ExitTargets : rets[bb] = TakenInto(body, Blocks(body), bb)
    /\ (hist.kind = "exit" /\ status = "running" /\ hist.op = "succ") =>
          /\ stack # <<>> /\ Head(stack).bb = hist.from
          /\ hist.bb \in ExitTargets
    /\ (hist.kind = "block" /\ status = "running") =>
          /\ ~is_join_point(body, hist.bb) /\ ~is_exit_block(body, hist.bb)
          /\ Head(stack).bb = hist.bb
          /\ hist.bb \in visited /\ hist.bb \notin queue
          /\ hist.op = "succ" => Len(stack) >= 2 /\ stack[2].bb = hist.from

\* both edges into the exit block of BodyExit were taken: two return checks,
\* the block neither visited nor queued
C27_Witness ==
    /\ body = BodyExit /\ status = "ok" /\ mode = "refine"
    /\ rets[2] = 2 /\ 2 \notin visited /\ ~bb_envs[2].some
    /\ is_join_point(body, 2) /\ is_exit_block(body, 2)

----------------------------------------------------------------------------
(* check_basic_block, effect by effect *)

MaxStmts == 2

\* a body whose blocks carry their statement lists
StmtBody(terms, stmts) ==
    [n |-> Len(terms),
     term |-> [bb \in 0 .. (Len(terms) - 1) |-> terms[bb + 1]],
     stmts |-> [bb \in 0 .. (Len(terms) - 1) |-> stmts[bb + 1]]]

PointLocation(bb, i) == [point |-> "Location", block |-> bb, index |-> i, target |-> NoBlock]
PointEdge(from, target) == [point |-> "Edge", block |-> from, index |-> 0, target |-> target]

\* Body::terminator_loc
terminator_loc(b, bb) == PointLocation(bb, Len(b.stmts[bb]))

\* what an effect is: ev names the operation, the rest where it happens
Effect(ev, bb, i, target) == [ev |-> ev, block |-> bb, index |-> i, target |-> target]
GhostEffect(point) == Effect("ghost:" \o point.point, point.block, point.index, point.target)
NoEffect == Effect("none", NoBlock, 0, NoBlock)

\* the state of a check: rcx is the insertion point of the refinement
\* context in use, parent the tree (node -> parent), env the set of effects
\* that changed the type environment in use, path the successors chosen on
\* the way to the code being checked, log what happened so far
BlockState ==
    [ok |-> TRUE, nn |-> 1, rcx |-> RootNode, parent |-> (RootNode :> NoNode),
     env |-> {}, path |-> <<>>, visited |-> {}, snapshots |-> <<>>,
     queue |-> {}, log |-> <<>>]

\* the nodes from the insertion point up to the root
RECURSIVE rcx_scope(_, _)
rcx_scope(parent, n) ==
    IF n = NoNode THEN {} ELSE {n} \cup rcx_scope(parent, parent[n])

\* the effect takes the number st.nn; on = "both" pushes a node below the
\* insertion point and changes the env, "rcx" only pushes the node, "none"
\* leaves both alone
touch(st, on) ==
    CASE on = "both" -> [st EXCEPT !.parent = @ @@ (st.nn :> st.rcx), !.rcx = st.nn,
                                   !.env = @ \cup {st.nn}, !.nn = @ + 1]
      [] on = "rcx" -> [st EXCEPT !.parent = @ @@ (st.nn :> st.rcx), !.rcx = st.nn,
                                  !.nn = @ + 1]
      [] OTHER -> [st EXCEPT !.nn = @ + 1]

logged(st, what, id) ==
    [st EXCEPT !.log = Append(@, [what |-> what, id |-> id, path |-> st.path,
                                   scope |-> rcx_scope(st.parent, st.rcx),
                                   env |-> st.env])]

\* an operation on rcx and env that returns Err at cfg.fail and otherwise
\* leaves its facts
effect(cfg, st, what, on) ==
    IF cfg.fail = what THEN [st EXCEPT !.ok = FALSE]
    ELSE logged(touch(st, on), what, st.nn)

\* an entry of the log that changes nothing
note(st, what) == logged([st EXCEPT !.nn = @ + 1], what, st.nn)

\* check_ghost_statements_at: the ghost statements at the point, if any
check_ghost_statements_at(cfg, st, point) ==
    IF point.point \in cfg.ghosts THEN effect(cfg, st, GhostEffect(point), "both")
    ELSE st

\* check_statement: a nop leaves rcx and env alone
check_statement(cfg, st, bb, i) ==
    effect(cfg, st, Effect("stmt", bb, i, NoBlock),
           IF cfg.body.stmts[bb][i + 1] = "nop" THEN "none" ELSE "both")

\* the loop over the statements of bb, from statement_index i on
RECURSIVE check_statements(_, _, _, _)
check_statements(cfg, st, bb, i) ==
    IF i >= Len(cfg.body.stmts[bb]) THEN st
    ELSE OkThen(OkThen(check_ghost_statements_at(cfg, st, PointLocation(bb, i)),
                       LAMBDA s : check_statement(cfg, s, bb, i)),
                LAMBDA s : check_statements(cfg, s, bb, i + 1))

\* is_exit_block: only nops, then a return
stmts_exit_block(b, bb) ==
    /\ \A i \in 1 .. Len(b.stmts[bb]) : b.stmts[bb][i] = "nop"
    /\ b.term[bb].kind = "Return"

\* rcx.snapshot() into snapshots[bb]
snapshot(st, bb) ==
    note([st EXCEPT !.snapshots = (bb :> st.rcx) @@ @], Effect("snapshot", bb, 0, NoBlock))

\* the context the checks of one successor start from: a branch of the
\* rcx and a clone of the env that check_successors was called with
branch_shared(st, frame) == st
branch(st, frame) == [st EXCEPT !.rcx = frame.rcx, !.env = frame.env]

\* the match on the guard of a successor
apply_guard(cfg, st, from, succ) ==
    CASE succ.guard.kind = "Pred" ->
            effect(cfg, st, Effect("assume_pred", from, 0, succ.target), "rcx")
      [] succ.guard.kind = "Match" ->
            effect(cfg, st, Effect("downcast", from, 0, succ.target), "both")
      [] OTHER -> st

check_ret(cfg, st, from, target) ==
    effect(cfg, st, Effect("check_ret", from, 0, target), "both")

\* M::check_goto_join_point and queue.insert
goto_join_point(cfg, st, from, target) ==
    OkThen(effect(cfg, st, Effect("join", from, 0, target), "none"),
           LAMBDA s : [s EXCEPT !.queue = @ \cup {target}])

\* the terminator and what follows it before the successors: the snapshot is
\* taken of the rcx the terminator left
snapshot_then_terminator(cfg, st, bb) ==
    effect(cfg, snapshot(st, bb), Effect("terminator", bb, 0, NoBlock), "both")
terminator_then_snapshot(cfg, st, bb) ==
    OkThen(effect(cfg, st, Effect("terminator", bb, 0, NoBlock), "both"),
           LAMBDA s : snapshot(s, bb))

\* the rcx and env check_successors is called with
Frame(st) == [rcx |-> st.rcx, env |-> st.env, path |-> st.path]

RECURSIVE block_check_basic_block(_, _, _), block_check_successors(_, _, _, _, _, _),
          block_check_goto(_, _, _, _)
block_check_goto(cfg, st, from, target) ==
    OkThen(check_ghost_statements_at(cfg, st, PointEdge(from, target)),
           LAMBDA s :
             IF stmts_exit_block(cfg.body, target)
             THEN OkThen(check_ghost_statements_at(cfg, s, terminator_loc(cfg.body, target)),
                         LAMBDA r : check_ret(cfg, r, from, target))
             ELSE IF is_join_point(cfg.body, target)
             THEN goto_join_point(cfg, s, from, target)
             ELSE block_check_basic_block(cfg, s, target))
block_check_successors(cfg, st, frame, from, succs, k) ==
    IF k > Len(succs) THEN st
    ELSE OkThen(OkThen(apply_guard(cfg,
                                   [branch(st, frame) EXCEPT
                                       !.path = Append(frame.path, <<from, k>>)],
                                   from, succs[k]),
                       LAMBDA s : block_check_goto(cfg, s, from, succs[k].target)),
                LAMBDA s : block_check_successors(cfg, s, frame, from, succs, k + 1))
block_check_basic_block(cfg, st, bb) ==
    OkThen(OkThen(OkThen(check_statements(cfg,
                                          note([st EXCEPT !.visited = @ \cup {bb}],
                                               Effect("start", bb, 0, NoBlock)),
                                          bb, 0),
                         LAMBDA s : check_ghost_statements_at(cfg, s,
                                                              terminator_loc(cfg.body, bb))),
                  LAMBDA s : terminator_then_snapshot(cfg, s, bb)),
           LAMBDA s : block_check_successors(
                         cfg, s, Frame(s), bb,
                         check_terminator(cfg.body.term[bb], {}).succs, 1))

\* if c { .. } else { .. }; return
StmtsIf(l0, l1, ret) ==
    StmtBody(<<SwitchInt("bool", 0, <<<<0, 1>>>>, 2), Goto(3), Goto(3), Return>>,
             <<l0, l1, <<"real">>, ret>>)

\* match e { A => if c { return } else { .. }, B => return, C => { .. } }; return
StmtsMatch(l0, l1, ret) ==
    StmtBody(<<SwitchInt("adt", 3, <<<<0, 1>>, <<1, 2>>>>, 3),
               SwitchInt("bool", 0, <<<<0, 4>>>>, 5), Return, Goto(5), Return, Return>>,
             <<l0, l1, ret, <<"real">>, ret, <<"real">>>>)

\* a[i]; f(); return
StmtsSeq(l0, l1, ret) ==
    StmtBody(<<Goto(1), AssertTerm(TRUE, "BoundsCheck", 2), Call(3), Return>>,
             <<l0, l1, <<"nop", "real">>, ret>>)

\* the operations made to return Err, one per input
FailPoints ==
    {NoEffect, Effect("stmt", 0, 0, NoBlock), Effect("terminator", 1, 0, NoBlock),
     Effect("downcast", 0, 0, 2), Effect("check_ret", 1, 0, 4),
     GhostEffect(PointEdge(0, 1)), Effect("join", 1, 0, 3)}

BlockInputs ==
    {[op |-> "block", body |-> b, ghosts |-> gh, fail |-> f] :
        b \in UNION {{StmtsIf(l0, l1, ret), StmtsMatch(l0, l1, ret), StmtsSeq(l0, l1, ret)} :
                        l0 \in SeqsUpTo({"real", "nop"}, 0, MaxStmts),
                        l1 \in {<<>>, <<"real">>},
                        ret \in {<<>>, <<"nop">>, <<"real">>}},
        gh \in SUBSET {"Location", "Edge"},
        f \in FailPoints}

\* run: check_goto(rcx, env, START_BLOCK, span, START_BLOCK) on the root
CheckBlocks ==
    /\ tin.op = "block" /\ tout = TPending
    /\ tout' = block_check_goto(tin, BlockState, START_BLOCK, START_BLOCK)
    /\ UNCHANGED <<ckvars, tin>>

BlockInit ==
    /\ CkInit(BodyDiamond, NoFault)
    /\ tin \in BlockInputs
    /\ tout = TPending

BlockNext == CheckBlocks

BlockSpec == BlockInit /\ [][BlockNext]_vars

\* the log entry of the start of bb, and the successors chosen on the way to it
StartOf(bb) ==
    tout.log[CHOOSE i \in 1 .. Len(tout.log) :
                 tout.log[i].what = Effect("start", bb, 0, NoBlock)]

IsPrefix(p, q) == Len(p) <= Len(q) /\ \A i \in 1 .. Len(p) : p[i] = q[i]

Whats(log) == [i \in 1 .. Len(log) |-> log[i].what]

\* what check_basic_block(bb) does itself: the entries of bb's statements,
\* terminator and snapshot, and of each successor the guard, the edge and
\* the arrival (return check, join, or the start of the target)
OfBlock(e, bb) ==
    \/ /\ e.path = StartOf(bb).path
       /\ e.what.block = bb
       /\ e.what.ev \in {"start", "ghost:Location", "stmt", "terminator", "snapshot"}
    \/ /\ Len(e.path) = Len(StartOf(bb).path) + 1
       /\ IsPrefix(StartOf(bb).path, e.path)
       /\ e.path[Len(e.path)][1] = bb
       /\ \/ e.what.ev \in {"assume_pred", "downcast", "ghost:Edge", "check_ret",
                            "join", "start"}
          \/ e.what.ev = "ghost:Location" /\ stmts_exit_block(tin.body, e.what.block)

BlockLog(bb) == SelectSeq(tout.log, LAMBDA e : OfBlock(e, bb))

\* the order the specification gives
RECURSIVE StmtsInOrder(_, _)
StmtsInOrder(bb, i) ==
    IF i >= Len(tin.body.stmts[bb]) THEN <<>>
    ELSE (IF "Location" \in tin.ghosts THEN <<GhostEffect(PointLocation(bb, i))>> ELSE <<>>)
         \o <<Effect("stmt", bb, i, NoBlock)>> \o StmtsInOrder(bb, i + 1)

SuccInOrder(bb, succ) ==
    (CASE succ.guard.kind = "Pred" -> <<Effect("assume_pred", bb, 0, succ.target)>>
       [] succ.guard.kind = "Match" -> <<Effect("downcast", bb, 0, succ.target)>>
       [] OTHER -> <<>>)
    \o (IF "Edge" \in tin.ghosts THEN <<GhostEffect(PointEdge(bb, succ.target))>> ELSE <<>>)
    \o (IF stmts_exit_block(tin.body, succ.target)
        THEN (IF "Location" \in tin.ghosts
              THEN <<GhostEffect(terminator_loc(tin.body, succ.target))>> ELSE <<>>)
             \o <<Effect("check_ret", bb, 0, succ.target)>>
        ELSE IF is_join_point(tin.body, succ.target)
        THEN <<Effect("join", bb, 0, succ.target)>>
        ELSE <<Effect("start", succ.target, 0, NoBlock)>>)

RECURSIVE SuccsInOrder(_, _, _)
SuccsInOrder(bb, succs, k) ==
    IF k > Len(succs) THEN <<>>
    ELSE SuccInOrder(bb, succs[k]) \o SuccsInOrder(bb, succs, k + 1)

InOrder(bb) ==
    <<Effect("start", bb, 0, NoBlock)>> \o StmtsInOrder(bb, 0)
    \o (IF "Location" \in tin.ghosts
        THEN <<GhostEffect(terminator_loc(tin.body, bb))>> ELSE <<>>)
    \o <<Effect("terminator", bb, 0, NoBlock), Effect("snapshot", bb, 0, NoBlock)>>
    \o SuccsInOrder(bb, check_terminator(tin.body.term[bb], {}).succs, 1)

\* the facts in the snapshot recorded for bb
SnapshotScope(bb) == rcx_scope(tout.parent, tout.snapshots[bb])

\* the entry is a fact of bb's statements, terminator or ghost statements
FactOfBlock(e, bb) ==
    /\ e.path = StartOf(bb).path /\ e.what.block = bb
    /\ \/ e.what.ev \in {"ghost:Location", "terminator"}
       \/ e.what.ev = "stmt" /\ tin.body.stmts[bb][e.what.index + 1] # "nop"

\* the entry was made for a successor of bb or below it
BelowBlock(e, bb) ==
    /\ Len(e.path) > Len(StartOf(bb).path)
    /\ IsPrefix(StartOf(bb).path, e.path)
    /\ e.path[Len(StartOf(bb).path) + 1][1] = bb

BlocksChecked == tout # TPending /\ tin.op = "block"

\* C25: what check_basic_block(bb) does is, in this order: per statement the
\* ghost statements at its location and the statement, the ghost statements
\* at the terminator location, the terminator, the snapshot of bb, and then
\* per successor its guard, its edge and its check (all of it when the check
\* passes, an initial part of it when an operation returned Err); the
\* snapshot of bb holds every fact of bb's statements and terminator and no
\* fact made for a successor.
C25_OrderOfEffects ==
    BlocksChecked =>
        \A bb \in tout.visited :
            /\ IsPrefix(Whats(BlockLog(bb)), InOrder(bb))
            /\ tout.ok => Whats(BlockLog(bb)) = InOrder(bb)
            /\ bb \in DOMAIN tout.snapshots =>
                  \A i \in 1 .. Len(tout.log) :
                      /\ FactOfBlock(tout.log[i], bb) =>
                            tout.log[i].id \in SnapshotScope(bb)
                      /\ BelowBlock(tout.log[i], bb) =>
                            tout.log[i].id \notin SnapshotScope(bb)
            /\ (bb \notin DOMAIN tout.snapshots /\ tout.log # <<>>) =>
                  /\ ~tout.ok
                  /\ \A i \in 1 .. Len(tout.log) : ~BelowBlock(tout.log[i], bb)

\* the match with two statements and ghost statements everywhere passed: the
\* snapshot of block 0 holds its statement and terminator but neither
\* downcast
C25_Witness ==
    /\ BlocksChecked /\ tout.ok
    /\ tin.body = StmtsMatch(<<"nop", "real">>, <<"real">>, <<"nop">>)
    /\ tin.ghosts = {"Location", "Edge"}
    /\ Len(BlockLog(0)) = 18
    /\ \E i, j \in 1 .. Len(tout.log) :
          /\ tout.log[i].what = Effect("stmt", 0, 1, NoBlock)
          /\ tout.log[i].id \in SnapshotScope(0)
          /\ tout.log[j].what = Effect("downcast", 0, 0, 1)
          /\ tout.log[j].id \notin SnapshotScope(0)
          /\ i < j

\* the successors that had been chosen when the effect numbered id was made
PathOfId(id) ==
    tout.log[CHOOSE i \in 1 .. Len(tout.log) : tout.log[i].id = id].path

\* the facts in the rcx and the env changes in the env an entry was made with
Visible(e) == (e.scope \cup e.env) \ {RootNode}

\* C26: whatever is checked for a successor, or in the subgraph below it,
\* sees in its rcx and env the facts of the blocks and successors on its own
\* path only: every fact of the block whose successor it is, and no guard,
\* downcast, fact or env change made for a sibling successor or below one.
C26_SuccessorsIsolated ==
    BlocksChecked =>
        \A i \in 1 .. Len(tout.log) :
            /\ \A id \in Visible(tout.log[i]) : IsPrefix(PathOfId(id), tout.log[i].path)
            /\ \A bb \in tout.visited :
                  BelowBlock(tout.log[i], bb) =>
                      \A j \in 1 .. Len(tout.log) :
                          FactOfBlock(tout.log[j], bb) =>
                              tout.log[j].id \in tout.log[i].scope \cap tout.log[i].env

\* the match passed: the return check for the second successor of block 0
\* sees the terminator of block 0, but neither the downcast for the first
\* successor nor the terminator of block 1 checked below it
C26_Witness ==
    /\ BlocksChecked /\ tout.ok
    /\ tin.body = StmtsMatch(<<"real">>, <<"real">>, <<"nop">>)
    /\ \E i, j, k, l \in 1 .. Len(tout.log) :
          /\ tout.log[i].what = Effect("terminator", 0, 0, NoBlock)
          /\ tout.log[j].what = Effect("downcast", 0, 0, 1)
          /\ tout.log[k].what = Effect("terminator", 1, 0, NoBlock)
          /\ tout.log[l].what = Effect("check_ret", 0, 0, 2)
          /\ i < j /\ j < k /\ k < l
          /\ tout.log[i].id \in Visible(tout.log[l])
          /\ tout.log[j].id \notin Visible(tout.log[l])
          /\ tout.log[k].id \notin Visible(tout.log[l])
          /\ tout.log[j].id \in tout.log[k].scope \cap tout.log[k].env

----------------------------------------------------------------------------
(* Binders below a short-form existential *)

\* C28: every @n accepted while gathering a function signature is recorded
\* in the FnInput scope and every accepted #n in the FnOutput scope, never
\* in a nested Exists scope; a binder accepted below the base type of a
\* short-form existential is found by the uses that follow the existential.
C28_BindersInFnScope ==
    (Gathered /\ tin.op = "fn_sig") =>
        /\ \A i \in 1 .. Len(tout.decls) :
              /\ tout.decls[i].bkind = "At" => tout.decls[i].scope.tag = "FnInput"
              /\ tout.decls[i].bkind = "Pound" => tout.decls[i].scope.tag = "FnOutput"
        /\ (tin.fam = "short_exists" /\ tout.decls # <<>>) =>
              \A j \in 1 .. Len(tout.uses) :
                  tout.uses[j].name = "n" => tout.uses[j].kind = tin.bkind

----------------------------------------------------------------------------
(* Sequences of kvar encodings *)

MaxCalls == 3
MaxKArgs == 2

\* Sort::walk: the leaves of a sort, each with the projections that lead to it
RECURSIVE walk(_, _), walk_fields(_, _, _)
walk(sort, proj) ==
    IF sort.kind = "Tuple" THEN walk_fields(sort.sorts, proj, 0)
    ELSE <<[sort |-> sort, proj |-> proj]>>
walk_fields(sorts, proj, i) ==
    IF i >= Len(sorts) THEN <<>>
    ELSE walk(sorts[i + 1], Append(proj, i)) \o walk_fields(sorts, proj, i + 1)

\* Expr::tuple_projs
RECURSIVE tuple_projs(_, _)
tuple_projs(e, proj) ==
    IF proj = <<>> THEN e ELSE tuple_projs(RtyTupleProj(e, Head(proj)), Tail(proj))

\* the loop of fresh_inner: the leaves of the arguments from the i-th on
\* that are neither Loc nor Func, each with its sort and its expression
RECURSIVE flattened(_, _, _)
flattened(args, i, self_args) ==
    IF i >= Len(args) THEN <<>>
    ELSE [j \in 1 .. Len(SelectSeq(walk(args[i + 1].sort, <<>>),
                                   LAMBDA l : l.sort.kind \notin {"Loc", "Func"})) |->
             [self |-> i < self_args, i |-> i,
              sort |-> SelectSeq(walk(args[i + 1].sort, <<>>),
                                 LAMBDA l : l.sort.kind \notin {"Loc", "Func"})[j].sort,
              is_var |-> SelectSeq(walk(args[i + 1].sort, <<>>),
                                   LAMBDA l : l.sort.kind \notin {"Loc", "Func"})[j].proj = <<>>,
              expr |-> tuple_projs(RtyFree(args[i + 1].var),
                                   SelectSeq(walk(args[i + 1].sort, <<>>),
                                             LAMBDA l : l.sort.kind \notin {"Loc", "Func"})[j].proj)]]
         \o flattened(args, i + 1, self_args)

\* KVarStore::fresh_inner: the declaration pushed for kvid and the kvar returned
fresh_inner(kvid, self_args, args, encoding) ==
    [decl |-> KVarDecl(Len(SelectSeq(flattened(args, 0, self_args), LAMBDA a : a.self)),
                       [j \in 1 .. Len(flattened(args, 0, self_args)) |->
                           flattened(args, 0, self_args)[j].sort],
                       encoding),
     kvar |-> [kvid |-> kvid, args |-> flattened(args, 0, self_args)]]

\* the arguments a kvar is created over: variables of kvar k with their sorts
ArgSorts == {RtyInt, RtyLoc, RtyTuple(<<RtyBool, RtyTuple(<<RtyInt, RtyLoc>>)>>),
             RtyTuple(<<>>)}
KArgsOf(k, sorts) == [j \in 1 .. Len(sorts) |-> [var |-> <<k, j>>, sort |-> sorts[j]]]

\* two kvars from the store: kvid 0 over every argument list, kvid 1 one of
\* a few
KVarChoices(k, lists) ==
    UNION {{fresh_inner(k, n, KArgsOf(k, ss), e) : n \in 0 .. Len(ss), e \in {"Single", "Conj"}} :
              ss \in lists}

KVarsInputs ==
    {[op |-> "kvars", made |-> <<k0, k1>>,
      cx |-> FixpointCtxt((0 :> k0.decl) @@ (1 :> k1.decl), pr,
                          [j \in 1 .. MaxKArgs |-> <<0, j>>]
                              \o [j \in 1 .. MaxKArgs |-> <<1, j>>])] :
        k0 \in KVarChoices(0, SeqsUpTo(ArgSorts, 0, MaxKArgs)),
        k1 \in KVarChoices(1, {<<>>, <<RtyInt, RtyTuple(<<RtyBool, RtyInt>>)>>}),
        pr \in 0 .. MaxPrior}

\* what one more encoding adds to the record of the encodings so far
Emitted(prev, k, r) ==
    [cx |-> r.cx, calls |-> prev.calls + 1,
     emitted |-> Append(prev.emitted,
                        [kvid |-> k, pred |-> r.pred,
                         before |-> Len(prev.cx.fixpoint_kvars),
                         after |-> Len(r.cx.fixpoint_kvars)])]

\* the next occurrence of one of the kvars is encoded
KVarsEncode ==
    /\ tin.op = "kvars" /\ tout.calls < MaxCalls
    /\ \E k \in {0, 1} :
          tout' = Emitted(tout, k, kvar_to_fixpoint(tout.cx, tin.made[k + 1].kvar, <<>>))
    /\ UNCHANGED <<ckvars, tin>>

KVarsInit ==
    /\ CkInit(BodyDiamond, NoFault)
    /\ tin \in KVarsInputs
    /\ tout = [cx |-> tin.cx, calls |-> 0, emitted |-> <<>>]

KVarsNext == KVarsEncode

KVarsSpec == KVarsInit /\ [][KVarsNext]_vars

\* the kvar applications of an encoded kvar
Applications(pred) == IF pred.kind = "And" THEN pred.preds ELSE <<pred>>

KVidsOf(pred) == [j \in 1 .. Len(Applications(pred)) |-> Applications(pred)[j].kvid]

\* C29: after any sequence of encodings, every emitted kvar application has
\* as many arguments as the fixpoint kvar it names has declared sorts (one
\* Unit-sorted argument for a kvar without arguments), and names a fixpoint
\* kvar allocated for its source kvar; all occurrences of a source kvar name
\* the same fixpoint kvars, and fixpoint kvars are allocated by the first
\* occurrence only.
C29_KVarArity ==
    tin.op = "kvars" =>
        \A i \in 1 .. Len(tout.emitted) :
            /\ tout.emitted[i].pred.kind \in {"And", "KVar"}
            /\ \A j \in 1 .. Len(Applications(tout.emitted[i].pred)) :
                  /\ Applications(tout.emitted[i].pred)[j].kvid + 1
                        \in 1 .. Len(tout.cx.fixpoint_kvars)
                  /\ Len(Applications(tout.emitted[i].pred)[j].args)
                        = Len(tout.cx.fixpoint_kvars[
                                  Applications(tout.emitted[i].pred)[j].kvid + 1].sorts)
                  /\ tout.cx.fixpoint_kvars[
                         Applications(tout.emitted[i].pred)[j].kvid + 1].orig
                        = tout.emitted[i].kvid
            /\ tin.made[tout.emitted[i].kvid + 1].decl.sorts = <<>> =>
                  /\ tout.emitted[i].pred.kind = "KVar"
                  /\ tout.cx.fixpoint_kvars[tout.emitted[i].pred.kvid + 1].sorts = <<UnitSort>>
            /\ \A l \in 1 .. (i - 1) :
                  tout.emitted[l].kvid = tout.emitted[i].kvid =>
                      /\ KVidsOf(tout.emitted[l].pred) = KVidsOf(tout.emitted[i].pred)
                      /\ tout.emitted[i].after = tout.emitted[i].before
            /\ (\A l \in 1 .. (i - 1) : tout.emitted[l].kvid # tout.emitted[i].kvid) =>
                  /\ tout.emitted[i].after
                        = tout.emitted[i].before + Len(Applications(tout.emitted[i].pred))
                  /\ \A j \in 1 .. Len(KVidsOf(tout.emitted[i].pred)) :
                        KVidsOf(tout.emitted[i].pred)[j] >= tout.emitted[i].before

\* kvar 0 without arguments, kvar 1 a conjunction over an integer and the
\* two leaves of a pair; 0, 1 and 0 again were encoded
C29_Witness ==
    /\ tin.op = "kvars" /\ tout.calls = 3
    /\ tin.made[1].decl.sorts = <<>>
    /\ tin.made[2].decl.encoding = "Conj" /\ tin.made[2].decl.self_args = 3
    /\ Len(tin.made[2].decl.sorts) = 3
    /\ [i \in 1 .. 3 |-> tout.emitted[i].kvid] = <<0, 1, 0>>
    /\ tout.emitted[3].pred.kvid = tout.emitted[1].pred.kvid
    /\ Len(tout.emitted[2].pred.preds) = 3
    /\ Len(tout.cx.fixpoint_kvars) = Len(tin.cx.fixpoint_kvars) + 4

----------------------------------------------------------------------------
(* Integer casts and the values of the source type *)

\* the values of an integer type of w bits run from -2^(w-1) to 2^(w-1) - 1
\* when it is signed and from 0 to 2^w - 1 when it is not; bool casts from 0
\* or 1. The powers are kept as exponents: 2^127 is not a number TLC has.
HighestExp(ty) ==
    IF ty = "bool" THEN 1
    ELSE IF ty \in IntTys THEN int_bit_width(ty, tin.pw) - 1
    ELSE uint_bit_width(ty, tin.pw)

\* the exponent of the magnitude of the lowest value, -1 when that value is 0
LowestExp(ty) == IF ty \in IntTys THEN int_bit_width(ty, tin.pw) - 1 ELSE 0 - 1

\* every value of type from is a value of type to
Representable(from, to) ==
    /\ HighestExp(from) <= HighestExp(to)
    /\ LowestExp(from) <= LowestExp(to)

\* C30: when an IntToInt cast gives the target type indexed by the source's
\* index, every value of the source type is a value of the target type, for
\* all integer types and the configured pointer width; a cast from a signed
\* to an unsigned type, and one from an unsigned to a signed type of the
\* same width, gives the unrefined target type.
C30_ValuePreserving ==
    (tin.op = "check_cast" /\ tout # TPending) =>
        /\ (tout.ty.refined /\ tout.ty.idx = Var) => Representable(tin.from, tin.to)
        /\ (tin.from \in IntTys /\ tin.to \in UintTys) => tout.ty = Unrefined(tin.to)
        /\ (/\ tin.from \in UintTys /\ tin.to \in IntTys
            /\ CastWidth(tin.from) = CastWidth(tin.to)) => tout.ty = Unrefined(tin.to)

\* usize to i64 keeps the index when pointers have 32 bits
C30_Witness ==
    /\ tin.op = "check_cast" /\ tout # TPending
    /\ tin.from = "usize" /\ tin.to = "i64" /\ tin.pw = 32
    /\ tout.ty = Indexed("i64", Var)
    /\ Representable("usize", "i64")

====
